---- MODULE Spec2Model ----
(***************************************************************************)
(* Verification model of keploy's connection/event factory (package conn:  *)
(* Factory.ProcessActiveTrackers, Factory.Worker, capture), of the         *)
(* PostgresV1 and generic codecs (MatchType, RecordOutgoing, MockOutgoing),*)
(* of the MySQL handshake response decoder and of the yaml file utilities. *)
(***************************************************************************)
EXTENDS Integers, Sequences, FiniteSets, TLC

(***************************************************************************)
(* Bounds of the model.                                                    *)
(***************************************************************************)
\* number of events handed to ProcessActiveTrackers
MaxEvents == 4
\* number of open events among them (each one starts a worker goroutine)
MaxOpen == 2
\* capacity of a worker channel; the code uses 1000, scaled down here
QueueCap == 2
\* capacity of the test-case channel t, which the caller creates
TCap == 1
\* longest initial buffer handed to MatchType
MaxBufLen == 9
\* most bytes that follow the 32-byte head of a handshake response packet
MaxTail == 4
\* number of WriteFile calls, of ReadFile calls, and bytes of a document
MaxWrites == 2
MaxReads == 1
DocParts == 2
\* number of connections a codec is called for
MaxCalls == 2
\* most bytes that follow the first byte of a length-encoded integer
MaxFollow == 8
\* docker events handled by one App
MaxDockerEvents == 4
\* docker events the listener of getDockerMeta receives during one App.Run
MaxMessages == 1

(***************************************************************************)
(* Program values.                                                         *)
(***************************************************************************)
\* TrafficDirectionEnum: the enum's values
IngressTraffic == 0
EgressTraffic == 1
\* var lastEventType TrafficDirectionEnum = -1
NoEvent == -1

\* the connection IDs the tracer reports
ConnIDs == {"c1", "c2"}
\* the connID of a worker that has not been started
NoConn == "none"
Workers == 1..MaxOpen
Directions == {IngressTraffic, EgressTraffic}

\* The payload of a data event is abstracted to one message: its kind says
\* whether its bytes are a complete well-formed HTTP message (WellFormed), an
\* HTTP message whose head is well formed but whose body is shorter than its
\* Content-Length (Truncated), or no HTTP at all (Malformed); its id is the
\* event's number among the events handled, so that no two payloads are equal.
WellFormed == "ok"
Truncated == "cut"
Malformed == "bad"
Kinds == {WellFormed, Truncated, Malformed}
Payload(k, n) == <<[kind |-> k, id |-> n]>>

\* the nil *http.Request / *http.Response
Nil == [kind |-> "nil", id |-> 0]

\* the zero SocketDataEvent, which a receive on a closed channel yields
ZeroEvent == [Direction |-> 0, Msg |-> <<>>]

VARIABLES
    connections,    \* Factory.connections: ConnID -> worker channel (0: no entry)
    chanBuf,        \* the events buffered in each worker channel
    chanClosed,     \* whether each worker channel has been closed
    spawned,        \* number of worker goroutines started so far
    wconn,          \* the connID a worker was started for
    wpc,            \* where each worker goroutine is
    lastEventType,  \* Worker's local lastEventType
    req,            \* Worker's local req accumulator
    res,            \* Worker's local res accumulator
    wnext,          \* value Worker assigns to lastEventType once capture returns
    mu,             \* Factory.mu: 0 when free, else the worker holding it
    t,              \* the test-case channel: buffered, undelivered test cases
    emitted,        \* every test case sent on t so far, in send order
    ctxDone,        \* ctx has been cancelled
    panic,          \* "none", or the panic the process has died of
    limit,          \* number of events the tracer delivers in this run
    pat,            \* where the goroutine calling ProcessActiveTrackers is
    nEvents,        \* events handed to ProcessActiveTrackers so far
    reqBuf,         \* MatchType's argument
    matched,        \* MatchType's result
    matchPc,        \* "idle", or "call" before and "return" after MatchType
    order,          \* the order in which the classifier visits the registry
    codec,          \* the name of the codec the classifier returned
    hsData,         \* decodeHandshakeResponse's argument: a slice
    hsOut,          \* what the call of decodeHandshakeResponse came to
    yCtxDone,       \* the ctx given to WriteFile and ReadFile is cancelled
    file,           \* the yaml file: whether it exists, and its bytes
    wf,             \* the frame of the WriteFile call and of its ctxWriter
    rf,             \* the frame of the ReadFile call and of its ctxReader
    wrote,          \* the WriteFile calls that returned, with their result
    codecFrame,     \* the frame of the RecordOutgoing / MockOutgoing call
    codecCtxDone,   \* the ctx given to the codec is cancelled
    errorLog,       \* what the codecs have logged at error level
    sessionDir,     \* the session root directory given to ReadSessionIndices
    sessions,       \* the frame of the ReadSessionIndices call
    leiB,           \* decodeLengthEncodedInteger's argument: a slice
    leiOut,         \* what decodeLengthEncodedInteger returned
    app,            \* the App's container ID, container IPv4 and inode
    inodeChan,      \* the inodes sent on App.inodeChan, in order
    handled,        \* the docker events handleDockerEvents has returned from
    runCfg,         \* App.kind and whether App.cmd is set, for one App.Run
    ctxs,           \* which contexts are cancelled: the caller's, runDocker's
    proc,           \* the application process started by App.run
    mainF,          \* the goroutine that called App.Run, and what Run returned
    runner,         \* the frame of App.run, and what it returned
    listener        \* the listener goroutine started by getDockerMeta

factoryVars == <<connections, chanBuf, chanClosed, spawned, wconn, wpc,
                 lastEventType, req, res, wnext, mu, t, emitted, ctxDone,
                 panic, pat, nEvents, limit>>
matchVars == <<reqBuf, matched, matchPc>>
classifyVars == <<order, codec>>
\* the variables of the components other than the factory and MatchType
handshakeVars == <<hsData, hsOut>>
yamlVars == <<yCtxDone, file, wf, rf, wrote>>
codecVars == <<codecFrame, codecCtxDone, errorLog>>
sessionVars == <<sessionDir, sessions>>
lenencVars == <<leiB, leiOut>>
dockerVars == <<app, inodeChan, handled>>
runVars == <<runCfg, ctxs, proc, mainF, runner, listener>>
laterVars == <<lenencVars, dockerVars, runVars>>
restVars == <<classifyVars, handshakeVars, yamlVars, codecVars, sessionVars,
              laterVars>>
\* what no step of a codec changes
nonCodecVars == <<factoryVars, matchVars, classifyVars, handshakeVars,
                  yamlVars, sessionVars, laterVars>>
\* what no step of WriteFile and ReadFile changes
nonYamlVars == <<factoryVars, matchVars, classifyVars, handshakeVars,
                 codecVars, sessionVars, laterVars>>
\* what no step of the factory changes
otherVars == <<limit, reqBuf, matched, matchPc, restVars>>
vars == <<connections, chanBuf, chanClosed, spawned, wconn, wpc,
          lastEventType, req, res, wnext, mu, t, emitted, ctxDone,
          panic, limit, pat, nEvents, reqBuf, matched, matchPc, restVars>>

\* a panic in any goroutine ends the process
crashed == panic # "none"
NilDereference == "invalid memory address or nil pointer dereference"
CloseOfNil == "close of nil channel"

Idle == [blocked |-> FALSE, ch |-> 0, ev |-> ZeroEvent]

(***************************************************************************)
(* pkg.ParseHTTPRequest / pkg.ParseHTTPResponse: the first HTTP message of *)
(* the bytes, or nil and an error when the bytes do not start with one.    *)
(***************************************************************************)
ParseHTTPRequest(b) ==
    IF b = <<>> \/ Head(b).kind = Malformed THEN Nil ELSE Head(b)

ParseHTTPResponse(b, parsedReq) ==
    IF b = <<>> \/ Head(b).kind = Malformed THEN Nil ELSE Head(b)

\* io.ReadAll of the Body of message m, parsed from bytes b: the body reads
\* on in b, so it fails when the message is cut short and nothing follows it
BodyReadable(m, b) == m.kind # Truncated \/ Len(b) > 1

(***************************************************************************)
(* NewFactory, and no event handled yet.                                   *)
(***************************************************************************)
FactoryStart ==
    /\ connections = [c \in ConnIDs |-> 0]
    /\ chanBuf = [w \in Workers |-> <<>>]
    /\ chanClosed = [w \in Workers |-> FALSE]
    /\ spawned = 0
    /\ wconn = [w \in Workers |-> NoConn]
    /\ wpc = [w \in Workers |-> "none"]
    /\ lastEventType = [w \in Workers |-> NoEvent]
    /\ req = [w \in Workers |-> <<>>]
    /\ res = [w \in Workers |-> <<>>]
    /\ wnext = [w \in Workers |-> NoEvent]
    /\ mu = 0
    /\ t = <<>>
    /\ emitted = <<>>
    /\ ctxDone = FALSE
    /\ panic = "none"
    /\ pat = Idle
    /\ nEvents = 0

FactoryInit == FactoryStart /\ limit = MaxEvents

MatchIdle ==
    /\ reqBuf = <<>>
    /\ matched = FALSE
    /\ matchPc = "idle"

\* the classifier has not been called
ClassifyIdle ==
    /\ order = <<>>
    /\ codec = "none"

\* A []byte: a holds the backing array from the slice's first byte up to
\* its capacity, n is the slice's length.
EmptySlice == [a |-> <<>>, n |-> 0]

\* models.MySQLHandshakeResponse with every field at its zero value
ZeroPacket ==
    [CapabilityFlags |-> 0, MaxPacketSize |-> 0, CharacterSet |-> 0,
     Reserved |-> [i \in 1..23 |-> 0], Username |-> <<>>, AuthData |-> <<>>,
     Database |-> <<>>, AuthPluginName |-> <<>>, ConnectAttributes |-> <<>>,
     ZstdCompressionLevel |-> 0]

\* decodeHandshakeResponse has not been called
NotCalled == [outcome |-> "pending", err |-> "", packet |-> ZeroPacket]

HandshakeIdle ==
    /\ hsData = EmptySlice
    /\ hsOut = NotCalled

\* no yaml file yet, and neither WriteFile nor ReadFile called
YamlIdle ==
    /\ yCtxDone = FALSE
    /\ file = [exists |-> FALSE, bytes |-> <<>>]
    /\ wf = [pc |-> "idle", calls |-> 0, doc |-> <<>>, isFileEmpty |-> FALSE,
             p |-> <<>>, n |-> 0, cw |-> [n |-> 0, err |-> "nil"],
             err |-> "nil"]
    /\ rf = [pc |-> "idle", reads |-> 0, pos |-> 0, data |-> <<>>,
             cr |-> [n |-> 0, err |-> "nil"],
             ret |-> [data |-> <<>>, err |-> "nil"]]
    /\ wrote = <<>>

\* no codec has been called
CodecIdle ==
    /\ codecFrame = [pc |-> "idle", calls |-> 0, name |-> "", mode |-> "",
                     readErr |-> "not run", stepErr |-> "not run",
                     ret |-> "nil", logged |-> 0]
    /\ codecCtxDone = FALSE
    /\ errorLog = <<>>

\* ReadSessionIndices has not been called
SessionsIdle ==
    /\ sessionDir = [opens |-> FALSE, lists |-> FALSE, files |-> <<>>]
    /\ sessions = [pc |-> "idle", indices |-> <<>>, err |-> "nil"]

\* decodeLengthEncodedInteger has not been called
NotDecoded == [length |-> 0, isNull |-> FALSE, bytesRead |-> 0, pc |-> "call"]

LenencIdle ==
    /\ leiB = EmptySlice
    /\ leiOut = [NotDecoded EXCEPT !.pc = "idle"]

\* an App in docker mode before any docker event: no container ID, no IP
NewApp == [containerID |-> "", containerIPv4 |-> "", inode |-> 0]

DockerIdle ==
    /\ app = NewApp
    /\ inodeChan = <<>>
    /\ handled = <<>>

\* models.AppError, and the zero AppError{}
AppError(type, err) == [AppErrorType |-> type, Err |-> err]
NoAppError == AppError("", "nil")

\* App.Run has not been called
RunIdle ==
    /\ runCfg = [kind |-> "native", cmd |-> ""]
    /\ ctxs = [caller |-> FALSE, child |-> FALSE]
    /\ proc = "none"
    /\ mainF = [pc |-> "idle", ret |-> NoAppError]
    /\ runner = [pc |-> "none", ret |-> NoAppError]
    /\ listener = [pc |-> "none", err |-> "nil", timer |-> "none",
                   events |-> "none"]

\* the components settled after the session indices are not in use
LaterIdle == LenencIdle /\ DockerIdle /\ RunIdle

\* no component other than the factory and MatchType is in use
RestIdle ==
    /\ ClassifyIdle /\ HandshakeIdle /\ YamlIdle /\ CodecIdle /\ SessionsIdle
    /\ LaterIdle

Init == FactoryInit /\ MatchIdle /\ RestIdle

(***************************************************************************)
(* Factory.ProcessActiveTrackers, one action per event type.  The caller   *)
(* is one goroutine: while it is blocked in a send it handles no event.    *)
(***************************************************************************)
CanHandle == ~crashed /\ ~pat.blocked /\ nEvents < limit

\* case "open": make a channel, store it under the connID, start a worker
OpenEvent(c) ==
    /\ CanHandle
    /\ spawned < MaxOpen
    /\ nEvents' = nEvents + 1
    /\ LET w == spawned + 1 IN
        /\ spawned' = w
        /\ connections' = [connections EXCEPT ![c] = w]
        /\ wconn' = [wconn EXCEPT ![w] = c]
        /\ wpc' = [wpc EXCEPT ![w] = "select"]
    /\ UNCHANGED <<chanBuf, chanClosed, lastEventType, req, res, wnext, mu,
                   t, emitted, ctxDone, panic, pat>>
    /\ UNCHANGED otherVars

\* whether a send on channel ch can proceed (a nil channel never can)
CanSend(ch) == ch # 0 /\ Len(chanBuf[ch]) < QueueCap

\* case "data": factory.connections[connectionId] <- *event.Msg.DataEvent
DataEvent(c, d, k) ==
    /\ CanHandle
    /\ nEvents' = nEvents + 1
    /\ LET ch == connections[c]
           ev == [Direction |-> d, Msg |-> Payload(k, nEvents + 1)]
       IN IF CanSend(ch)
          THEN /\ chanBuf' = [chanBuf EXCEPT ![ch] = Append(@, ev)]
               /\ pat' = pat
          ELSE /\ pat' = [blocked |-> TRUE, ch |-> ch, ev |-> ev]
               /\ chanBuf' = chanBuf
    /\ UNCHANGED <<connections, chanClosed, spawned, wconn, wpc,
                   lastEventType, req, res, wnext, mu, t, emitted, ctxDone,
                   panic>>
    /\ UNCHANGED otherVars

\* the blocked send of case "data" proceeds once the channel has room
DataSendProceeds ==
    /\ ~crashed
    /\ pat.blocked
    /\ CanSend(pat.ch)
    /\ chanBuf' = [chanBuf EXCEPT ![pat.ch] = Append(@, pat.ev)]
    /\ pat' = Idle
    /\ UNCHANGED <<connections, chanClosed, spawned, wconn, wpc,
                   lastEventType, req, res, wnext, mu, t, emitted, ctxDone,
                   panic, nEvents>>
    /\ UNCHANGED otherVars

\* case "close": close(factory.connections[connectionId]); delete the entry.
\* Closing a nil channel panics.
CloseEvent(c) ==
    /\ CanHandle
    /\ nEvents' = nEvents + 1
    /\ LET ch == connections[c] IN
       IF ch = 0
       THEN /\ panic' = CloseOfNil
            /\ UNCHANGED <<chanClosed, connections>>
       ELSE /\ chanClosed' = [chanClosed EXCEPT ![ch] = TRUE]
            /\ connections' = [connections EXCEPT ![c] = 0]
            /\ panic' = panic
    /\ UNCHANGED <<chanBuf, spawned, wconn, wpc, lastEventType, req, res,
                   wnext, mu, t, emitted, ctxDone, pat>>
    /\ UNCHANGED otherVars

ProcessActiveTrackers ==
    \/ \E c \in ConnIDs : OpenEvent(c)
    \/ \E c \in ConnIDs, d \in Directions, k \in Kinds : DataEvent(c, d, k)
    \/ DataSendProceeds
    \/ \E c \in ConnIDs : CloseEvent(c)

(***************************************************************************)
(* Factory.Worker: one goroutine per open event, on its own channel.       *)
(***************************************************************************)
AtSelect(w) == ~crashed /\ wpc[w] = "select"

\* the accumulators after the switch on dataEvent.Direction
AppendReq(b, ev) == IF ev.Direction = IngressTraffic THEN b \o ev.Msg ELSE b
AppendRes(b, ev) == IF ev.Direction = EgressTraffic THEN b \o ev.Msg ELSE b

\* if dataEvent.Direction == IngressTraffic && lastEventType == EgressTraffic
TestcaseReady(ev, last) ==
    ev.Direction = IngressTraffic /\ last = EgressTraffic

\* WorkerRecv with a worker that returns once its channel is closed and
\* drained (dataEvent, ok := <-workerChan; if !ok { return })
WorkerRecvReturnsOnClose(w) ==
    /\ AtSelect(w)
    /\ chanBuf[w] # <<>> \/ chanClosed[w]
    /\ IF chanBuf[w] = <<>>
       THEN /\ wpc' = [wpc EXCEPT ![w] = "done"]
            /\ UNCHANGED <<chanBuf, req, res, wnext, lastEventType>>
       ELSE LET ev == Head(chanBuf[w]) IN
            /\ chanBuf' = [chanBuf EXCEPT ![w] = Tail(@)]
            /\ req' = [req EXCEPT ![w] = AppendReq(@, ev)]
            /\ res' = [res EXCEPT ![w] = AppendRes(@, ev)]
            /\ IF TestcaseReady(ev, lastEventType[w])
               THEN /\ wpc' = [wpc EXCEPT ![w] = "lock"]
                    /\ wnext' = [wnext EXCEPT ![w] = ev.Direction]
                    /\ lastEventType' = lastEventType
               ELSE /\ lastEventType' =
                        [lastEventType EXCEPT ![w] = ev.Direction]
                    /\ UNCHANGED <<wpc, wnext>>
    /\ UNCHANGED <<connections, chanClosed, spawned, wconn, mu, t, emitted,
                   ctxDone, panic, pat, nEvents>>
    /\ UNCHANGED otherVars

\* case dataEvent := <-workerChan.  A closed channel whose buffer is empty
\* yields the zero event at once, every time.
WorkerRecv(w) ==
    /\ AtSelect(w)
    /\ chanBuf[w] # <<>> \/ chanClosed[w]
    /\ LET ev == IF chanBuf[w] # <<>> THEN Head(chanBuf[w]) ELSE ZeroEvent IN
        /\ chanBuf' = [chanBuf EXCEPT ![w] = IF @ # <<>> THEN Tail(@) ELSE @]
        /\ req' = [req EXCEPT ![w] = AppendReq(@, ev)]
        /\ res' = [res EXCEPT ![w] = AppendRes(@, ev)]
        /\ IF TestcaseReady(ev, lastEventType[w])
           THEN /\ wpc' = [wpc EXCEPT ![w] = "lock"]
                /\ wnext' = [wnext EXCEPT ![w] = ev.Direction]
                /\ lastEventType' = lastEventType
           ELSE /\ lastEventType' = [lastEventType EXCEPT ![w] = ev.Direction]
                /\ UNCHANGED <<wpc, wnext>>
    /\ UNCHANGED <<connections, chanClosed, spawned, wconn, mu, t, emitted,
                   ctxDone, panic, pat, nEvents>>
    /\ UNCHANGED otherVars

\* WorkerTimeout without the reset of lastEventType after the capture
WorkerTimeoutNoReset(w) ==
    /\ AtSelect(w)
    /\ chanBuf[w] = <<>> /\ ~chanClosed[w] /\ ~ctxDone
    /\ IF lastEventType[w] = EgressTraffic
       THEN /\ wpc' = [wpc EXCEPT ![w] = "lock"]
            /\ wnext' = [wnext EXCEPT ![w] = lastEventType[w]]
            /\ lastEventType' = lastEventType
       ELSE /\ lastEventType' = [lastEventType EXCEPT ![w] = NoEvent]
            /\ UNCHANGED <<wpc, wnext>>
    /\ UNCHANGED <<connections, chanBuf, chanClosed, spawned, wconn, req, res,
                   mu, t, emitted, ctxDone, panic, pat, nEvents>>
    /\ UNCHANGED otherVars

\* WorkerTimeout without the test of lastEventType: every timeout captures
WorkerTimeoutAlways(w) ==
    /\ AtSelect(w)
    /\ chanBuf[w] = <<>> /\ ~chanClosed[w] /\ ~ctxDone
    /\ wpc' = [wpc EXCEPT ![w] = "lock"]
    /\ wnext' = [wnext EXCEPT ![w] = NoEvent]
    /\ lastEventType' = lastEventType
    /\ UNCHANGED <<connections, chanBuf, chanClosed, spawned, wconn, req, res,
                   mu, t, emitted, ctxDone, panic, pat, nEvents>>
    /\ UNCHANGED otherVars

\* case <-time.After(2 * time.Second): fires only when no other case was
\* ready for two seconds, that is, nothing to receive and ctx not done
WorkerTimeout(w) ==
    /\ AtSelect(w)
    /\ chanBuf[w] = <<>> /\ ~chanClosed[w] /\ ~ctxDone
    /\ IF lastEventType[w] = EgressTraffic
       THEN /\ wpc' = [wpc EXCEPT ![w] = "lock"]
            /\ wnext' = [wnext EXCEPT ![w] = NoEvent]
            /\ lastEventType' = lastEventType
       ELSE /\ lastEventType' = [lastEventType EXCEPT ![w] = NoEvent]
            /\ UNCHANGED <<wpc, wnext>>
    /\ UNCHANGED <<connections, chanBuf, chanClosed, spawned, wconn, req, res,
                   mu, t, emitted, ctxDone, panic, pat, nEvents>>
    /\ UNCHANGED otherVars

\* case <-ctx.Done(): return
WorkerCtxDone(w) ==
    /\ AtSelect(w)
    /\ ctxDone
    /\ wpc' = [wpc EXCEPT ![w] = "done"]
    /\ UNCHANGED <<connections, chanBuf, chanClosed, spawned, wconn,
                   lastEventType, req, res, wnext, mu, t, emitted, ctxDone,
                   panic, pat, nEvents>>
    /\ UNCHANGED otherVars

\* the test case capture builds
TestCase(w) ==
    [w |-> w, conn |-> wconn[w],
     path |-> IF wnext[w] = NoEvent THEN "timeout" ELSE "transition",
     HTTPReq |-> ParseHTTPRequest(req[w]),
     HTTPResp |-> ParseHTTPResponse(res[w], ParseHTTPRequest(req[w])),
     req |-> req[w], res |-> res[w]]

\* WorkerCapture with a capture that builds a test case from a nil request or
\* response instead of dereferencing it
WorkerCaptureNilTolerant(w) ==
    /\ ~crashed
    /\ wpc[w] = "lock"
    /\ mu = 0
    /\ mu' = w
    /\ wpc' = [wpc EXCEPT ![w] = "send"]
    /\ UNCHANGED <<panic, lastEventType>>
    /\ UNCHANGED <<connections, chanBuf, chanClosed, spawned, wconn, req, res,
                   wnext, t, emitted, ctxDone, pat, nEvents>>
    /\ UNCHANGED otherVars

\* factory.mu.Lock(); capture(...) up to its send on t.  capture
\* dereferences req and resp without a nil check; it returns early when a
\* body cannot be read.
WorkerCapture(w) ==
    /\ ~crashed
    /\ wpc[w] = "lock"
    /\ mu = 0
    /\ LET tc == TestCase(w) IN
       IF tc.HTTPReq = Nil
       THEN /\ panic' = NilDereference
            /\ UNCHANGED <<mu, wpc, lastEventType>>
       ELSE IF ~BodyReadable(tc.HTTPReq, req[w])
       THEN /\ lastEventType' = [lastEventType EXCEPT ![w] = wnext[w]]
            /\ wpc' = [wpc EXCEPT ![w] = "select"]
            /\ UNCHANGED <<mu, panic>>
       ELSE IF tc.HTTPResp = Nil
       THEN /\ panic' = NilDereference
            /\ UNCHANGED <<mu, wpc, lastEventType>>
       ELSE IF ~BodyReadable(tc.HTTPResp, res[w])
       THEN /\ lastEventType' = [lastEventType EXCEPT ![w] = wnext[w]]
            /\ wpc' = [wpc EXCEPT ![w] = "select"]
            /\ UNCHANGED <<mu, panic>>
       ELSE /\ mu' = w
            /\ wpc' = [wpc EXCEPT ![w] = "send"]
            /\ UNCHANGED <<panic, lastEventType>>
    /\ UNCHANGED <<connections, chanBuf, chanClosed, spawned, wconn, req, res,
                   wnext, t, emitted, ctxDone, pat, nEvents>>
    /\ UNCHANGED otherVars

\* t <- tc, then factory.mu.Unlock() and lastEventType = ...
WorkerSend(w) ==
    /\ ~crashed
    /\ wpc[w] = "send"
    /\ Len(t) < TCap
    /\ t' = Append(t, TestCase(w))
    /\ emitted' = Append(emitted, TestCase(w))
    /\ mu' = 0
    /\ lastEventType' = [lastEventType EXCEPT ![w] = wnext[w]]
    /\ wpc' = [wpc EXCEPT ![w] = "select"]
    /\ UNCHANGED <<connections, chanBuf, chanClosed, spawned, wconn, req, res,
                   wnext, ctxDone, panic, pat, nEvents>>
    /\ UNCHANGED otherVars

Worker(w) ==
    \/ WorkerRecv(w)
    \/ WorkerTimeout(w)
    \/ WorkerCtxDone(w)
    \/ WorkerCapture(w)
    \/ WorkerSend(w)

(***************************************************************************)
(* The environment: the consumer of t, and the owner of ctx.               *)
(***************************************************************************)
TestCaseReceived ==
    /\ ~crashed
    /\ t # <<>>
    /\ t' = Tail(t)
    /\ UNCHANGED <<connections, chanBuf, chanClosed, spawned, wconn, wpc,
                   lastEventType, req, res, wnext, mu, emitted, ctxDone,
                   panic, pat, nEvents>>
    /\ UNCHANGED otherVars

Cancel ==
    /\ ~crashed
    /\ ~ctxDone
    /\ ctxDone' = TRUE
    /\ UNCHANGED <<connections, chanBuf, chanClosed, spawned, wconn, wpc,
                   lastEventType, req, res, wnext, mu, t, emitted, panic,
                   pat, nEvents>>
    /\ UNCHANGED otherVars

Next ==
    \/ ProcessActiveTrackers
    \/ \E w \in Workers : Worker(w)
    \/ TestCaseReceived
    \/ Cancel

Spec == Init /\ [][Next]_vars

(***************************************************************************)
(* Scheduling.  The Go scheduler runs every runnable goroutine, and a     *)
(* goroutine waiting for factory.mu gets it (sync.Mutex's starvation       *)
(* mode): a worker that can take a step again and again takes one.         *)
(* Nothing obliges the tracer to deliver events, the owner of ctx to       *)
(* cancel it, or, in FairWorkers, the consumer of t to receive.            *)
(***************************************************************************)
WorkerFairness(w) == SF_vars(Worker(w))

FairWorkers ==
    /\ Spec
    /\ \A w \in Workers : WorkerFairness(w)
    /\ WF_vars(DataSendProceeds)

\* FairWorkers with a consumer that keeps receiving from t
FairSpec ==
    /\ Spec
    /\ \A w \in Workers : WorkerFairness(w)
    /\ WF_vars(DataSendProceeds)
    /\ WF_vars(TestCaseReceived)

(***************************************************************************)
(* The factory serving one connID, which may be opened again and closed,   *)
(* with every kind of payload, under the scheduling of FairSpec.           *)
(***************************************************************************)
OneConnNext ==
    \/ OpenEvent("c1")
    \/ \E d \in Directions, k \in Kinds : DataEvent("c1", d, k)
    \/ DataSendProceeds
    \/ CloseEvent("c1")
    \/ \E w \in Workers : Worker(w)
    \/ TestCaseReceived
    \/ Cancel

OneConnFairSpec ==
    /\ Init /\ [][OneConnNext]_vars
    /\ \A w \in Workers : WorkerFairness(w)
    /\ WF_vars(DataSendProceeds)
    /\ WF_vars(TestCaseReceived)

(***************************************************************************)
(* A longer run on one connID with well-formed payloads only, in which the *)
(* connID is opened again while it is live.                                *)
(***************************************************************************)
ReopenInit == FactoryStart /\ limit = MaxEvents + 2 /\ MatchIdle /\ RestIdle

ReopenNext ==
    \/ OpenEvent("c1")
    \/ \E d \in Directions : DataEvent("c1", d, WellFormed)
    \/ DataSendProceeds
    \/ \E w \in Workers : WorkerRecv(w)
    \/ \E w \in Workers : WorkerTimeout(w)
    \/ \E w \in Workers : WorkerCapture(w)
    \/ \E w \in Workers : WorkerSend(w)
    \/ TestCaseReceived

ReopenSpec == ReopenInit /\ [][ReopenNext]_vars

(***************************************************************************)
(* PostgresV1.MatchType, applied to initial buffers of every length up to  *)
(* MaxBufLen.                                                              *)
(***************************************************************************)
\* const ProtocolVersion = 0x00030000
ProtocolVersion == 196608
\* the SSLRequest code MatchType compares with
SSLRequestCode == 80877103

\* reqBuf[lo:hi]
Slice(b, lo, hi) == SubSeq(b, lo + 1, hi)

\* binary.BigEndian.Uint32
BigEndianUint32(b) == b[1] * 16777216 + b[2] * 65536 + b[3] * 256 + b[4]

\* MatchType reading the version field in the wrong byte order
MatchTypeLittleEndian(b) ==
    IF Len(b) < 8
    THEN FALSE
    ELSE LET version == b[5] + b[6] * 256 + b[7] * 65536 + b[8] * 16777216 IN
         IF version = SSLRequestCode THEN TRUE ELSE version = ProtocolVersion

MatchType(b) ==
    IF Len(b) < 8
    THEN FALSE
    ELSE LET version == BigEndianUint32(Slice(b, 4, 8)) IN
         IF version = SSLRequestCode THEN TRUE ELSE version = ProtocolVersion

\* The buffers tried: every prefix, of length up to MaxBufLen, of a length
\* field followed by a version field and padding.  The length field also
\* takes the two accepted version values.
LengthFields ==
    {<<0, 0, 0, 8>>, <<0, 3, 0, 0>>, <<4, 210, 22, 47>>, <<255, 255, 255, 255>>}
VersionFields ==
    {<<a, b, c, d>> : a \in {0, 4}, b \in {0, 3, 210}, c \in {0, 22},
                      d \in {0, 1, 47}}
Padding(n) == [i \in 1..n |-> 0]
Buffers ==
    {SubSeq(l \o v \o Padding(MaxBufLen), 1, n) :
        l \in LengthFields, v \in VersionFields, n \in 0..MaxBufLen}

MatchInit ==
    /\ FactoryInit
    /\ RestIdle
    /\ reqBuf \in Buffers
    /\ matched = FALSE
    /\ matchPc = "call"

MatchTypeCall ==
    /\ matchPc = "call"
    /\ matched' = MatchType(reqBuf)
    /\ matchPc' = "return"
    /\ UNCHANGED reqBuf
    /\ UNCHANGED factoryVars
    /\ UNCHANGED restVars

MatchNext == MatchTypeCall

MatchSpec == MatchInit /\ [][MatchNext]_vars

(***************************************************************************)
(* The protocol classifier over the registry that the init functions of    *)
(* the codecs fill: it visits the registered codecs in some order and      *)
(* returns the first whose MatchType accepts the initial buffer, else      *)
(* generic.                                                                *)
(***************************************************************************)
\* integrations.Register("generic", ...), integrations.Register("postgres_v1", ...)
GenericName == "generic"
PostgresName == "postgres_v1"
Registered == {GenericName, PostgresName}

\* a generic codec that claims every buffer
GenericMatchTypeAlways(b) == TRUE

\* Generic.MatchType
GenericMatchType(b) == FALSE

\* MatchType of the codec registered under name
CodecMatchType(name, b) ==
    IF name = GenericName THEN GenericMatchType(b) ELSE MatchType(b)

RECURSIVE Classify(_, _)
Classify(o, b) ==
    IF o = <<>> THEN GenericName
    ELSE IF CodecMatchType(Head(o), b) THEN Head(o)
    ELSE Classify(Tail(o), b)

\* the orders in which the registry can be visited
Orders == {o \in [1..Cardinality(Registered) -> Registered] :
              \A i, j \in DOMAIN o : i # j => o[i] # o[j]}

\* "GET / HT"
GetRequestHead == <<71, 69, 84, 32, 47, 32, 72, 84>>

ClassifyInit ==
    /\ FactoryInit
    /\ reqBuf \in Buffers \cup {GetRequestHead}
    /\ matched = FALSE
    /\ matchPc = "call"
    /\ order \in Orders
    /\ codec = "none"
    /\ HandshakeIdle
    /\ YamlIdle
    /\ CodecIdle
    /\ SessionsIdle
    /\ LaterIdle

ClassifyCall ==
    /\ matchPc = "call"
    /\ codec' = Classify(order, reqBuf)
    /\ matchPc' = "return"
    /\ UNCHANGED <<reqBuf, matched, order>>
    /\ UNCHANGED factoryVars
    /\ UNCHANGED <<handshakeVars, yamlVars, codecVars, sessionVars,
                   laterVars>>

ClassifyNext == ClassifyCall

ClassifySpec == ClassifyInit /\ [][ClassifyNext]_vars

(***************************************************************************)
(* decodeHandshakeResponse (package mysql) on byte slices.  A slice        *)
(* expression data[lo:] panics when lo exceeds len(data), data[:hi] when   *)
(* hi exceeds cap(data), and data[i] when i is not below len(data).        *)
(***************************************************************************)
CLIENT_PLUGIN_AUTH == 524288
CLIENT_CONNECT_WITH_DB == 8
CLIENT_CONNECT_ATTRS == 1048576
CLIENT_ZSTD_COMPRESSION_ALGORITHM == 65536
CLIENT_PLUGIN_AUTH_LENENC_CLIENT_DATA == 2097152

\* flags & flag != 0, for a flag of one bit
HasFlag(flags, flag) == (flags \div flag) % 2 = 1

\* data[lo:]
SliceFrom(data, lo) ==
    [a |-> SubSeq(data.a, lo + 1, Len(data.a)), n |-> data.n - lo]
\* data[:hi]
SliceTo(data, hi) == [a |-> data.a, n |-> hi]
\* string(data[:hi])
StringTo(data, hi) == SubSeq(data.a, 1, hi)
\* bytes.IndexByte(data, c)
IndexByte(data, c) ==
    IF \E i \in 1..data.n : data.a[i] = c
    THEN (CHOOSE i \in 1..data.n :
             data.a[i] = c /\ \A j \in 1..(i - 1) : data.a[j] # c) - 1
    ELSE -1

\* binary.LittleEndian.Uint32(data[:4])
LittleEndianUint32(data) ==
    data.a[1] + data.a[2] * 256 + data.a[3] * 65536 + data.a[4] * 16777216

\* A length of 2^24 or more, which no buffer of the model has room for: what
\* the 8-byte form yields when one of its five high bytes is not zero and
\* the top bit is clear.
TooLong == 16777216
\* int(uint64) of a value of 2^63 or more, that is, with the top bit of the
\* last byte set: a negative int, whose magnitude plays no part here
NegativeLength == -1

\* decodeLengthEncodedInteger with a null that reads as the length 0
decodeLengthEncodedIntegerNullAsZero(b) ==
    IF b.n = 0 THEN [length |-> 0, isNull |-> FALSE, bytesRead |-> 0]
    ELSE IF b.a[1] = 251
    THEN [length |-> 0, isNull |-> FALSE, bytesRead |-> 1]
    ELSE [length |-> b.a[1], isNull |-> FALSE, bytesRead |-> 1]

\* decodeLengthEncodedInteger
decodeLengthEncodedInteger(b) ==
    IF b.n = 0 THEN [length |-> 0, isNull |-> TRUE, bytesRead |-> 0]
    ELSE CASE b.a[1] = 251 -> [length |-> 0, isNull |-> TRUE, bytesRead |-> 1]
           [] b.a[1] = 252 ->
                IF b.n < 3
                THEN [length |-> 0, isNull |-> FALSE, bytesRead |-> 0]
                ELSE [length |-> b.a[2] + b.a[3] * 256, isNull |-> FALSE,
                      bytesRead |-> 3]
           [] b.a[1] = 253 ->
                IF b.n < 4
                THEN [length |-> 0, isNull |-> FALSE, bytesRead |-> 0]
                ELSE [length |-> b.a[2] + b.a[3] * 256 + b.a[4] * 65536,
                      isNull |-> FALSE, bytesRead |-> 4]
           [] b.a[1] = 254 ->
                IF b.n < 9
                THEN [length |-> 0, isNull |-> FALSE, bytesRead |-> 0]
                ELSE [length |->
                        IF b.a[9] >= 128
                        THEN NegativeLength
                        ELSE IF \E i \in 5..9 : b.a[i] # 0
                        THEN TooLong
                        ELSE b.a[2] + b.a[3] * 256 + b.a[4] * 65536,
                      isNull |-> FALSE, bytesRead |-> 9]
           [] OTHER -> [length |-> b.a[1], isNull |-> FALSE, bytesRead |-> 1]

\* the outcomes of a call
Decoded(packet) == [outcome |-> "ok", err |-> "", packet |-> packet]
Failed(msg) == [outcome |-> "error", err |-> msg, packet |-> ZeroPacket]
\* runtime error: index or slice bounds out of range
OutOfRange == [outcome |-> "panic", err |-> "out of range", packet |-> ZeroPacket]
\* the loop over the attributes makes no progress
Hangs == [outcome |-> "hang", err |-> "", packet |-> ZeroPacket]

\* packet.ConnectAttributes[key] = value
MapPut(m, key, value) ==
    [k \in DOMAIN m \cup {key} |-> IF k = key THEN value ELSE m[k]]

\* for len(attributesData) > 0 { ... }: the map, or how the loop failed
RECURSIVE DecodeAttributes(_, _)
DecodeAttributes(attributesData, m) ==
    IF attributesData.n = 0 THEN [outcome |-> "ok", err |-> "", attrs |-> m]
    ELSE
    LET k == decodeLengthEncodedInteger(attributesData)
        afterKeyLen == SliceFrom(attributesData, k.bytesRead)
    IN
    IF k.isNull
    THEN [outcome |-> "error", attrs |-> m,
          err |-> "null length encoded integer for connection attribute key"]
    ELSE IF k.length < 0 \/ k.length > afterKeyLen.n
    THEN [outcome |-> "panic", err |-> "out of range", attrs |-> m]
    ELSE
    LET key == StringTo(afterKeyLen, k.length)
        afterKey == SliceFrom(afterKeyLen, k.length)
        v == decodeLengthEncodedInteger(afterKey)
        afterValueLen == SliceFrom(afterKey, v.bytesRead)
    IN
    IF v.isNull
    THEN [outcome |-> "error", attrs |-> m,
          err |-> "null length encoded integer for connection attribute value"]
    ELSE IF v.length < 0 \/ v.length > afterValueLen.n
    THEN [outcome |-> "panic", err |-> "out of range", attrs |-> m]
    ELSE IF k.bytesRead + k.length + v.bytesRead + v.length = 0
    THEN [outcome |-> "hang", err |-> "", attrs |-> m]
    ELSE DecodeAttributes(SliceFrom(afterValueLen, v.length),
                          MapPut(m, key, StringTo(afterValueLen, v.length)))

\* lines 123-132: the zstd level when the flag is set and data is left
DecodeZstdLevel(packet, data) ==
    IF data.n > 0 /\ HasFlag(packet.CapabilityFlags,
                             CLIENT_ZSTD_COMPRESSION_ALGORITHM)
    THEN Decoded([packet EXCEPT !.ZstdCompressionLevel = data.a[1]])
    ELSE Decoded(packet)

\* lines 86-122: the connection attributes
DecodeConnectAttrs(packet, data) ==
    IF ~HasFlag(packet.CapabilityFlags, CLIENT_CONNECT_ATTRS)
    THEN DecodeZstdLevel(packet, data)
    ELSE IF data.n < 4
    THEN Failed("handshake response packet too short for connection attributes")
    ELSE
    LET total == decodeLengthEncodedInteger(data)
        afterLen == SliceFrom(data, total.bytesRead)
    IN
    IF total.isNull \/ total.bytesRead = 0
    THEN Failed("error decoding total length of connection attributes")
    ELSE IF total.length < 0 \/ total.length > afterLen.n
    THEN OutOfRange
    ELSE
    LET loop == DecodeAttributes(SliceTo(afterLen, total.length), <<>>) IN
    CASE loop.outcome = "error" -> Failed(loop.err)
      [] loop.outcome = "panic" -> OutOfRange
      [] loop.outcome = "hang" -> Hangs
      [] OTHER -> DecodeZstdLevel([packet EXCEPT !.ConnectAttributes = loop.attrs],
                                  SliceFrom(afterLen, total.length))

\* lines 77-84: the plugin name
DecodeAuthPluginName(packet, data) ==
    IF ~HasFlag(packet.CapabilityFlags, CLIENT_PLUGIN_AUTH)
    THEN DecodeConnectAttrs(packet, data)
    ELSE LET idx == IndexByte(data, 0) IN
         IF idx = -1
         THEN Failed("missing null terminator for AuthPluginName")
         ELSE DecodeConnectAttrs(
                  [packet EXCEPT !.AuthPluginName = StringTo(data, idx)],
                  SliceFrom(data, idx + 1))

\* lines 69-75: the database name
DecodeDatabase(packet, data) ==
    IF ~HasFlag(packet.CapabilityFlags, CLIENT_CONNECT_WITH_DB)
    THEN DecodeAuthPluginName(packet, data)
    ELSE LET idx == IndexByte(data, 0) IN
         IF idx # -1
         THEN DecodeAuthPluginName(
                  [packet EXCEPT !.Database = StringTo(data, idx)],
                  SliceFrom(data, idx + 1))
         ELSE DecodeAuthPluginName(packet, data)

\* lines 52-67: the auth data
DecodeAuthData(packet, data) ==
    IF data.n = 0
    THEN OutOfRange
    ELSE IF HasFlag(packet.CapabilityFlags,
                    CLIENT_PLUGIN_AUTH_LENENC_CLIENT_DATA)
    THEN LET length == data.a[1]
             rest == SliceFrom(data, 1)
         IN IF length > 0
            THEN IF rest.n < length
                 THEN Failed("handshake response packet too short for auth data")
                 ELSE DecodeDatabase(
                          [packet EXCEPT !.AuthData = StringTo(rest, length)],
                          SliceFrom(rest, length))
            ELSE DecodeDatabase(packet, rest)
    ELSE LET authLen == data.a[1]
             rest == SliceFrom(data, 2)
         IN IF data.n < 2 \/ authLen > Len(rest.a)
            THEN OutOfRange
            ELSE DecodeDatabase(
                     [packet EXCEPT !.AuthData = StringTo(rest, authLen)], rest)

decodeHandshakeResponse(data) ==
    IF data.n < 32
    THEN Failed("handshake response packet too short")
    ELSE
    LET head == [ZeroPacket EXCEPT
                    !.CapabilityFlags = LittleEndianUint32(data),
                    !.MaxPacketSize = LittleEndianUint32(SliceFrom(data, 4)),
                    !.CharacterSet = data.a[9],
                    !.Reserved = SubSeq(data.a, 10, 32)]
        afterHead == SliceFrom(data, 32)
        idx == IndexByte(afterHead, 0)
    IN
    IF idx = -1
    THEN Failed("missing null terminator for Username")
    ELSE DecodeAuthData([head EXCEPT !.Username = StringTo(afterHead, idx)],
                        SliceFrom(afterHead, idx + 1))

(***************************************************************************)
(* The packets tried: the example of the specification, heads cut short,   *)
(* and a 32-byte head with each set of capability flags followed by every  *)
(* byte string of length up to MaxTail over TailBytes.  The backing array  *)
(* of the slice may hold a byte more than the slice.                       *)
(***************************************************************************)
\* v as four little-endian bytes
LittleEndianBytes(v) ==
    <<v % 256, (v \div 256) % 256, (v \div 65536) % 256, v \div 16777216>>

\* capability flags, max packet size 00 00 00 01, charset 0x21, 23 zero bytes
Head32(flags) ==
    LittleEndianBytes(flags) \o <<0, 0, 0, 1>> \o <<33>> \o [i \in 1..23 |-> 0]

\* "root", "test", "mysql_native_password", "foo", "bar"
RootName == <<114, 111, 111, 116>>
TestName == <<116, 101, 115, 116>>
NativePasswordName ==
    <<109, 121, 115, 113, 108, 95, 110, 97, 116, 105, 118, 101, 95,
      112, 97, 115, 115, 119, 111, 114, 100>>
FooName == <<102, 111, 111>>
BarName == <<98, 97, 114>>

\* the capability bytes 8D A6 0F 00 of the example
ExampleFlags == 1025677
\* the 20 auth bytes of the example, which the specification leaves open
ExampleAuths == {[i \in 1..20 |-> i], [i \in 1..20 |-> 0]}
ExamplePacket(auth) ==
    Head32(ExampleFlags) \o RootName \o <<0>> \o <<20>> \o auth
        \o TestName \o <<0>> \o NativePasswordName \o <<0>>
        \o <<12>> \o <<3>> \o FooName \o <<3>> \o BarName

Capabilities ==
    {0,
     CLIENT_CONNECT_WITH_DB,
     CLIENT_PLUGIN_AUTH,
     CLIENT_CONNECT_WITH_DB + CLIENT_PLUGIN_AUTH,
     CLIENT_PLUGIN_AUTH_LENENC_CLIENT_DATA + CLIENT_CONNECT_WITH_DB,
     CLIENT_CONNECT_ATTRS + CLIENT_ZSTD_COMPRESSION_ALGORITHM,
     CLIENT_ZSTD_COMPRESSION_ALGORITHM,
     CLIENT_ZSTD_COMPRESSION_ALGORITHM
         + CLIENT_PLUGIN_AUTH_LENENC_CLIENT_DATA}
\* 0x00, small lengths, 'a', and the null and 2-byte length prefixes
TailBytes == {0, 1, 2, 97, 251, 252}
Tails == UNION {[1..k -> TailBytes] : k \in 0..MaxTail}
\* what the backing array holds beyond the slice
Spares == {<<>>, <<0>>}

\* Packets that reach the connection attributes: an empty username, an auth
\* length of 0 (and the skipped byte when the length is not in the lenenc
\* form), then at least the four bytes the attributes need.
AttrCapabilities ==
    {CLIENT_CONNECT_ATTRS + CLIENT_ZSTD_COMPRESSION_ALGORITHM,
     CLIENT_CONNECT_ATTRS + CLIENT_PLUGIN_AUTH_LENENC_CLIENT_DATA}
AttrPreamble(c) ==
    IF HasFlag(c, CLIENT_PLUGIN_AUTH_LENENC_CLIENT_DATA)
    THEN <<0, 0>> ELSE <<0, 0, 0>>
\* 0x00, the lengths 1 and 2, and the null and 2-byte length prefixes
AttrTailBytes == {0, 1, 2, 251, 252}
AttrTails == UNION {[1..k -> AttrTailBytes] : k \in 4..(MaxTail + 1)}

AsSlice(bytes, spare) == [a |-> bytes \o spare, n |-> Len(bytes)]
AttrPacket(c, tl) == AsSlice(Head32(c) \o AttrPreamble(c) \o tl, <<>>)
\* the bytes of a slice
Bytes(data) == SubSeq(data.a, 1, data.n)

HandshakeInputs ==
    {AsSlice(Head32(c) \o tl, sp) : c \in Capabilities, tl \in Tails,
                                    sp \in Spares}
        \cup {AsSlice(ExamplePacket(au), sp) : au \in ExampleAuths,
                                              sp \in Spares}
        \cup {AsSlice(SubSeq(Head32(0), 1, k), <<>>) : k \in {0, 31}}

HandshakeInit ==
    /\ FactoryInit
    /\ MatchIdle
    /\ ClassifyIdle
    /\ \/ hsData \in HandshakeInputs
       \/ \E c \in AttrCapabilities, tl \in AttrTails :
             hsData = AttrPacket(c, tl)
    /\ hsOut = NotCalled
    /\ YamlIdle
    /\ CodecIdle
    /\ SessionsIdle
    /\ LaterIdle

DecodeCall ==
    /\ hsOut = NotCalled
    /\ hsOut' = decodeHandshakeResponse(hsData)
    /\ UNCHANGED hsData
    /\ UNCHANGED <<factoryVars, matchVars, classifyVars, yamlVars, codecVars,
                   sessionVars, laterVars>>

HandshakeNext == DecodeCall

HandshakeSpec == HandshakeInit /\ [][HandshakeNext]_vars

(***************************************************************************)
(* decodeLengthEncodedInteger on its own: every first byte that selects a  *)
(* form, followed by up to MaxFollow bytes.                                *)
(***************************************************************************)
\* a literal byte, the last literal byte 0xfa, 0xfb, 0xfc, 0xfd, 0xfe, 0xff
FirstBytes == {0, 250, 251, 252, 253, 254, 255}
\* the bytes that follow: 0x00, 0x01 and 0x80, which has the top bit set
FollowBytes == {0, 1, 128}
Follows == UNION {[1..k -> FollowBytes] : k \in 0..MaxFollow}

LenencInit ==
    /\ FactoryInit
    /\ MatchIdle
    /\ ClassifyIdle /\ HandshakeIdle /\ YamlIdle /\ CodecIdle /\ SessionsIdle
    /\ DockerIdle /\ RunIdle
    /\ \/ leiB = EmptySlice
       \/ \E f \in FirstBytes, fl \in Follows :
             leiB = AsSlice(<<f>> \o fl, <<>>)
    /\ leiOut = NotDecoded

LenencCall ==
    /\ leiOut.pc = "call"
    /\ leiOut' = LET r == decodeLengthEncodedInteger(leiB)
                 IN [length |-> r.length, isNull |-> r.isNull,
                     bytesRead |-> r.bytesRead, pc |-> "return"]
    /\ UNCHANGED leiB
    /\ UNCHANGED <<factoryVars, matchVars, classifyVars, handshakeVars,
                   yamlVars, codecVars, sessionVars, dockerVars, runVars>>

LenencNext == LenencCall

LenencSpec == LenencInit /\ [][LenencNext]_vars

(***************************************************************************)
(* Package yaml: WriteFile and ReadFile on one yaml file, through           *)
(* ctxWriter and ctxReader.  The calls follow one another; ctx can be       *)
(* cancelled at any moment.  A document is DocParts bytes that occur in no  *)
(* other document, "---\n" is one separator byte.  The underlying writer    *)
(* and reader transfer one or more of the bytes offered per call, or fail.  *)
(***************************************************************************)
\* ctx.Err() once ctx is cancelled, and an error of the underlying file
Canceled == "context canceled"
IOError == "i/o error"
NoError == "nil"

Doc(i) == [k \in 1..DocParts |-> [doc |-> i, part |-> k]]
\* []byte("---\n")
Separator == <<[doc |-> 0, part |-> 0]>>

\* the goroutine is in neither WriteFile nor ReadFile
NoCall == wf.pc \in {"idle", "done"} /\ rf.pc \in {"idle", "done"}

\* CreateYamlFile: an error, or whether it has just created the file.
\* Then data is built and the file is opened with O_WRONLY|O_CREATE|O_TRUNC.
WriteFileCreate ==
    /\ NoCall
    /\ wf.calls < MaxWrites
    /\ \/ wf' = [wf EXCEPT !.pc = "done", !.calls = @ + 1,
                           !.doc = Doc(wf.calls + 1), !.err = IOError]
          /\ wrote' = Append(wrote, [doc |-> wf.calls + 1, err |-> IOError])
          /\ UNCHANGED file
       \/ /\ wf' = [wf EXCEPT !.pc = "open", !.calls = @ + 1,
                              !.doc = Doc(wf.calls + 1),
                              !.isFileEmpty = ~file.exists]
          /\ file' = [file EXCEPT !.exists = TRUE]
          /\ UNCHANGED wrote
    /\ UNCHANGED <<rf, yCtxDone>>
    /\ UNCHANGED nonYamlVars

\* data := "---\n" unless isFileEmpty; data = append(data, docData...);
\* os.OpenFile(yamlPath, os.O_WRONLY|os.O_CREATE|os.O_TRUNC, 0644)
WriteFileOpen ==
    /\ wf.pc = "open"
    /\ \/ /\ wf' = [wf EXCEPT !.pc = "done", !.err = IOError]
          /\ wrote' = Append(wrote, [doc |-> wf.calls, err |-> IOError])
          /\ UNCHANGED file
       \/ /\ wf' = [wf EXCEPT
                      !.pc = "check",
                      !.p = (IF wf.isFileEmpty THEN <<>> ELSE Separator)
                               \o wf.doc,
                      !.n = 0]
          /\ file' = [exists |-> TRUE, bytes |-> <<>>]
          /\ UNCHANGED wrote
    /\ UNCHANGED <<rf, yCtxDone>>
    /\ UNCHANGED nonYamlVars

\* a ctxWriter that does not look at its context
CtxWriterCheckNever ==
    /\ wf.pc = "check"
    /\ IF wf.p = <<>>
       THEN wf' = [wf EXCEPT !.pc = "written",
                             !.cw = [n |-> wf.n, err |-> NoError]]
       ELSE wf' = [wf EXCEPT !.pc = "write"]
    /\ UNCHANGED <<file, rf, wrote, yCtxDone>>
    /\ UNCHANGED nonYamlVars

\* ctxWriter.Write: for len(p) > 0 { select { case <-cw.ctx.Done(): ...
CtxWriterCheck ==
    /\ wf.pc = "check"
    /\ IF wf.p = <<>>
       THEN wf' = [wf EXCEPT !.pc = "written",
                             !.cw = [n |-> wf.n, err |-> NoError]]
       ELSE IF yCtxDone
       THEN wf' = [wf EXCEPT !.pc = "written",
                             !.cw = [n |-> wf.n, err |-> Canceled]]
       ELSE wf' = [wf EXCEPT !.pc = "write"]
    /\ UNCHANGED <<file, rf, wrote, yCtxDone>>
    /\ UNCHANGED nonYamlVars

\* a ctxWriter.Write without p = p[written:]
CtxWriterChunkKeepsP ==
    /\ wf.pc = "write"
    /\ \/ \E k \in 1..Len(wf.p) :
            /\ file' = [file EXCEPT !.bytes = @ \o SubSeq(wf.p, 1, k)]
            /\ wf' = [wf EXCEPT !.pc = "check", !.n = @ + k]
       \/ \E k \in 0..(Len(wf.p) - 1) :
            /\ file' = [file EXCEPT !.bytes = @ \o SubSeq(wf.p, 1, k)]
            /\ wf' = [wf EXCEPT !.pc = "written", !.n = @ + k,
                                !.cw = [n |-> wf.n + k, err |-> IOError]]
    /\ UNCHANGED <<rf, wrote, yCtxDone>>
    /\ UNCHANGED nonYamlVars

\* default: written, err = cw.writer.Write(p); n += written; ...
CtxWriterChunk ==
    /\ wf.pc = "write"
    /\ \/ \E k \in 1..Len(wf.p) :
            /\ file' = [file EXCEPT !.bytes = @ \o SubSeq(wf.p, 1, k)]
            /\ wf' = [wf EXCEPT !.pc = "check", !.n = @ + k,
                                !.p = SubSeq(wf.p, k + 1, Len(wf.p))]
       \/ \E k \in 0..(Len(wf.p) - 1) :
            /\ file' = [file EXCEPT !.bytes = @ \o SubSeq(wf.p, 1, k)]
            /\ wf' = [wf EXCEPT !.pc = "written", !.n = @ + k,
                                !.cw = [n |-> wf.n + k, err |-> IOError]]
    /\ UNCHANGED <<rf, wrote, yCtxDone>>
    /\ UNCHANGED nonYamlVars

\* a WriteFile that returns whatever error cw.Write returned
WriteFileReturnPropagates ==
    /\ wf.pc = "written"
    /\ wf' = [wf EXCEPT !.pc = "done", !.err = wf.cw.err]
    /\ wrote' = Append(wrote, [doc |-> wf.calls, err |-> wf.cw.err])
    /\ UNCHANGED <<file, rf, yCtxDone>>
    /\ UNCHANGED nonYamlVars

\* _, err = cw.Write(data); if err != nil { if err == ctx.Err() { return nil }
WriteFileReturn ==
    /\ wf.pc = "written"
    /\ LET err == IF wf.cw.err = Canceled THEN NoError ELSE wf.cw.err IN
        /\ wf' = [wf EXCEPT !.pc = "done", !.err = err]
        /\ wrote' = Append(wrote, [doc |-> wf.calls, err |-> err])
    /\ UNCHANGED <<file, rf, yCtxDone>>
    /\ UNCHANGED nonYamlVars

\* os.Open(filePath), then io.ReadAll(cr) starts
ReadFileOpen ==
    /\ NoCall
    /\ wf.calls > 0
    /\ rf.reads < MaxReads
    /\ IF file.exists
       THEN rf' = [rf EXCEPT !.pc = "read", !.reads = @ + 1, !.pos = 0,
                             !.data = <<>>,
                             !.cr = [n |-> 0, err |-> NoError]]
       ELSE rf' = [rf EXCEPT !.pc = "done", !.reads = @ + 1,
                             !.ret = [data |-> <<>>,
                                      err |-> "failed to read the file"]]
    /\ UNCHANGED <<file, wf, wrote, yCtxDone>>
    /\ UNCHANGED nonYamlVars

\* a ctxReader that does not look at its context
CtxReaderReadAlways ==
    /\ rf.pc = "read"
    /\ \/ /\ rf.pos = Len(file.bytes)
          /\ rf' = [rf EXCEPT !.pc = "done",
                              !.cr = [n |-> 0, err |-> "EOF"],
                              !.ret = [data |-> rf.data, err |-> NoError]]
       \/ \E k \in 1..(Len(file.bytes) - rf.pos) :
            rf' = [rf EXCEPT
                     !.pos = @ + k,
                     !.data = @ \o SubSeq(file.bytes, rf.pos + 1, rf.pos + k),
                     !.cr = [n |-> k, err |-> NoError]]
       \/ rf' = [rf EXCEPT !.pc = "done",
                           !.cr = [n |-> 0, err |-> IOError],
                           !.ret = [data |-> <<>>,
                                    err |-> "failed to read the file"]]
    /\ UNCHANGED <<file, wf, wrote, yCtxDone>>
    /\ UNCHANGED nonYamlVars

\* One Read of io.ReadAll(cr) through ctxReader.Read, and what ReadFile
\* returns when that Read ends the loop: on cancellation (nil, nil), at EOF
\* (data, nil), on an error of the file (nil, error).
CtxReaderRead ==
    /\ rf.pc = "read"
    /\ IF yCtxDone
       THEN rf' = [rf EXCEPT !.pc = "done",
                             !.cr = [n |-> 0, err |-> Canceled],
                             !.ret = [data |-> <<>>, err |-> NoError]]
       ELSE \/ /\ rf.pos = Len(file.bytes)
               /\ rf' = [rf EXCEPT !.pc = "done",
                                   !.cr = [n |-> 0, err |-> "EOF"],
                                   !.ret = [data |-> rf.data, err |-> NoError]]
            \/ \E k \in 1..(Len(file.bytes) - rf.pos) :
                 rf' = [rf EXCEPT
                          !.pos = @ + k,
                          !.data = @ \o SubSeq(file.bytes, rf.pos + 1,
                                               rf.pos + k),
                          !.cr = [n |-> k, err |-> NoError]]
            \/ rf' = [rf EXCEPT !.pc = "done",
                                !.cr = [n |-> 0, err |-> IOError],
                                !.ret = [data |-> <<>>,
                                         err |-> "failed to read the file"]]
    /\ UNCHANGED <<file, wf, wrote, yCtxDone>>
    /\ UNCHANGED nonYamlVars

\* the owner of ctx cancels it
YamlCancel ==
    /\ ~yCtxDone
    /\ yCtxDone' = TRUE
    /\ UNCHANGED <<file, wf, rf, wrote>>
    /\ UNCHANGED nonYamlVars

YamlInit ==
    /\ FactoryInit
    /\ MatchIdle
    /\ ClassifyIdle
    /\ HandshakeIdle
    /\ YamlIdle
    /\ CodecIdle
    /\ SessionsIdle
    /\ LaterIdle

YamlNext ==
    \/ WriteFileCreate
    \/ WriteFileOpen
    \/ CtxWriterCheck
    \/ CtxWriterChunk
    \/ WriteFileReturn
    \/ ReadFileOpen
    \/ CtxReaderRead
    \/ YamlCancel

YamlSpec == YamlInit /\ [][YamlNext]_vars

\* the goroutine inside ctxWriter.Write keeps running: the select with a
\* default case never waits, and the underlying Write returns
YamlFairSpec ==
    /\ YamlSpec
    /\ WF_vars(CtxWriterCheck)
    /\ WF_vars(CtxWriterChunk)

(***************************************************************************)
(* RecordOutgoing and MockOutgoing of the generic and PostgresV1 codecs,   *)
(* called for one connection after another.  util.ReadInitialBuf and the   *)
(* encode/decode functions succeed, fail on the connection, or, once ctx   *)
(* is cancelled, may return ctx's error.                                   *)
(***************************************************************************)
Modes == {"record", "mock"}
NotRun == "not run"

\* errors.New("failed to record the outgoing generic call") and the like
CallFailed(name, mode) == <<"failed", mode, name>>

\* what a blocking helper can return
HelperErrors == IF codecCtxDone THEN {NoError, IOError, Canceled}
                ELSE {NoError, IOError}

\* the dispatcher calls RecordOutgoing or MockOutgoing of a codec
CodecCall(name, mode) ==
    /\ codecFrame.pc \in {"idle", "done"}
    /\ codecFrame.calls < MaxCalls
    /\ codecFrame' = [pc |-> "read", calls |-> codecFrame.calls + 1,
                      name |-> name, mode |-> mode, readErr |-> NotRun,
                      stepErr |-> NotRun, ret |-> NoError, logged |-> 0]
    /\ UNCHANGED <<codecCtxDone, errorLog>>
    /\ UNCHANGED nonCodecVars

\* a codec that goes on to encode/decode whatever ReadInitialBuf returned
ReadInitialBufUnchecked ==
    /\ codecFrame.pc = "read"
    /\ \E err \in HelperErrors :
          codecFrame' = [codecFrame EXCEPT !.pc = "step", !.readErr = err]
    /\ UNCHANGED <<codecCtxDone, errorLog>>
    /\ UNCHANGED nonCodecVars

\* reqBuf, err := util.ReadInitialBuf(ctx, logger, src); if err != nil { ... }
ReadInitialBuf ==
    /\ codecFrame.pc = "read"
    /\ \E err \in HelperErrors :
          IF err # NoError
          THEN /\ errorLog' = Append(errorLog,
                                     <<"failed to read the initial message",
                                       codecFrame.name, err>>)
               /\ codecFrame' = [codecFrame EXCEPT
                                   !.pc = "done", !.readErr = err,
                                   !.logged = @ + 1,
                                   !.ret = CallFailed(codecFrame.name,
                                                      codecFrame.mode)]
          ELSE /\ codecFrame' = [codecFrame EXCEPT !.pc = "step",
                                                   !.readErr = err]
               /\ UNCHANGED errorLog
    /\ UNCHANGED codecCtxDone
    /\ UNCHANGED nonCodecVars

\* err = encodeGeneric(...) / decodeGeneric(...) / encodePostgres(...) /
\* decodePostgres(...); if err != nil { ... }; return nil
EncodeOrDecode ==
    /\ codecFrame.pc = "step"
    /\ \E err \in HelperErrors :
          IF err # NoError
          THEN /\ errorLog' = Append(errorLog,
                                     <<"failed to encode or decode the message",
                                       codecFrame.name, err>>)
               /\ codecFrame' = [codecFrame EXCEPT
                                   !.pc = "done", !.stepErr = err,
                                   !.logged = @ + 1,
                                   !.ret = CallFailed(codecFrame.name,
                                                      codecFrame.mode)]
          ELSE /\ codecFrame' = [codecFrame EXCEPT !.pc = "done",
                                                   !.stepErr = err]
               /\ UNCHANGED errorLog
    /\ UNCHANGED codecCtxDone
    /\ UNCHANGED nonCodecVars

\* the owner of ctx cancels it
CodecCancel ==
    /\ ~codecCtxDone
    /\ codecCtxDone' = TRUE
    /\ UNCHANGED <<codecFrame, errorLog>>
    /\ UNCHANGED nonCodecVars

CodecInit ==
    /\ FactoryInit
    /\ MatchIdle
    /\ RestIdle

CodecNext ==
    \/ \E name \in Registered, mode \in Modes : CodecCall(name, mode)
    \/ ReadInitialBuf
    \/ EncodeOrDecode
    \/ CodecCancel

CodecSpec == CodecInit /\ [][CodecNext]_vars

(***************************************************************************)
(* ReadSessionIndices on a session root directory.  The directory may fail *)
(* to open, or open and fail to list; a listing names each entry once, in  *)
(* any order.                                                              *)
(***************************************************************************)
ReservedName == "testReports"
EntryNames == {"test-set-0", "test-set-1", "mocks", ReservedName}
\* the listings dir.ReadDir(0) can return
Listings ==
    {l \in UNION {[1..k -> EntryNames] : k \in 0..Cardinality(EntryNames)} :
        \A i, j \in DOMAIN l : i # j => l[i] # l[j]}

\* a loop that takes every entry
AllNames(files) == files

\* for _, v := range files { if v.Name() != "testReports" { append } }
SessionNames(files) == SelectSeq(files, LAMBDA v : v # ReservedName)

SessionsInit ==
    /\ FactoryInit
    /\ MatchIdle
    /\ ClassifyIdle /\ HandshakeIdle /\ YamlIdle /\ CodecIdle
    /\ \E o \in BOOLEAN, r \in BOOLEAN, l \in Listings :
          sessionDir = [opens |-> o, lists |-> r, files |-> l]
    /\ sessions = [pc |-> "call", indices |-> <<>>, err |-> NoError]
    /\ LaterIdle

ReadSessionIndices ==
    /\ sessions.pc = "call"
    /\ sessions' =
          IF ~sessionDir.opens
          THEN [pc |-> "return", indices |-> <<>>, err |-> NoError]
          ELSE IF ~sessionDir.lists
          THEN [pc |-> "return", indices |-> <<>>, err |-> IOError]
          ELSE [pc |-> "return", indices |-> SessionNames(sessionDir.files),
                err |-> NoError]
    /\ UNCHANGED sessionDir
    /\ UNCHANGED <<factoryVars, matchVars, classifyVars, handshakeVars,
                   yamlVars, codecVars, laterVars>>

SessionsNext == ReadSessionIndices

SessionsSpec == SessionsInit /\ [][SessionsNext]_vars

(***************************************************************************)
(* App.handleDockerEvents in docker mode: the listener goroutine of        *)
(* getDockerMeta hands it the create, connect and start events of the      *)
(* docker daemon one at a time.  What ContainerInspect and getInode answer *)
(* is an input of each event.  The receiver of inodeChan is ready, so the  *)
(* send completes; inodeChan holds what has been sent.                     *)
(***************************************************************************)
\* a.container, and "/"+a.container
container == "app"
SlashContainer == "/app"
\* the names ContainerInspect reports for the container of a create event
ContainerNames == {SlashContainer, "/db"}
EventIDs == {"id1", "id2"}
\* the ID of an event whose ID the handler does not read
NoID == "-"
\* n.IPAddress of the container on a.containerNetwork
IPAddresses == {"", "172.18.0.2"}
\* info.State.Pid of a running container, and the inode getInode finds
RunningPid == 7
NoPid == 0
Inode == 11
\* what an event made the handler look at
NotInspected == "not inspected"
InspectFails == "inspect error"
NoNetworkSettings == "no network settings"
NetworkNotFound == "network not found"
Inspected == "inspected"
\* the errors handleDockerEvents returns
InspectError == "failed to inspect container"
IPNotAvailable == "docker container started but ip not yet available"
PidNotAvailable == "failed to get the pid of the container"
InodeError == "failed to get inode"

DockerInit ==
    /\ FactoryInit
    /\ MatchIdle
    /\ ClassifyIdle /\ HandshakeIdle /\ YamlIdle /\ CodecIdle /\ SessionsIdle
    /\ LenencIdle
    /\ DockerIdle
    /\ RunIdle

\* what handleDockerEvents leaves alone, and what the whole docker mode does
nonAppVars == <<factoryVars, matchVars, classifyVars, handshakeVars,
                yamlVars, codecVars, sessionVars, lenencVars>>
nonDockerVars == <<nonAppVars, runVars>>

\* the listener has an event to hand over
HasDockerEvent == Len(handled) < MaxDockerEvents

Returned(action, id, seen, pid, ret) ==
    [Action |-> action, ID |-> id, seen |-> seen, Pid |-> pid, ret |-> ret]

\* case "create": c is the name ContainerInspect reports for e.ID, or
\* InspectFails
CreateCase(id, c) ==
    /\ IF c = InspectFails
       THEN /\ app' = app
            /\ handled' = Append(handled,
                   Returned("create", id, c, NoPid, InspectError))
       ELSE /\ app' = IF c # SlashContainer
                      THEN app
                      ELSE [app EXCEPT !.containerID = id]
            /\ handled' = Append(handled,
                   Returned("create", id, c, NoPid, NoError))
    /\ UNCHANGED inodeChan

CreateEvent(id, c) ==
    HasDockerEvent /\ CreateCase(id, c) /\ UNCHANGED nonDockerVars

\* case "connect": n is what the inspection of a.container shows of its
\* address on a.containerNetwork; the container is inspected only once the
\* container ID is set
ConnectCase(n) ==
    /\ (n = NotInspected) <=> (app.containerID = "")
    /\ app' = IF n \in IPAddresses
              THEN [app EXCEPT !.containerIPv4 = n]
              ELSE app
    /\ handled' = Append(handled,
           Returned("connect", NoID, n, NoPid,
                    IF n = InspectFails THEN InspectError ELSE NoError))
    /\ UNCHANGED inodeChan

ConnectEvent(n) ==
    HasDockerEvent /\ ConnectCase(n) /\ UNCHANGED nonDockerVars

\* as StartInspects, without the test of a.containerIPv4
StartInspectsWithoutIP == app.containerID # ""

\* whether case "start" gets as far as inspecting a.container: the container
\* ID is set and the IP is known
StartInspects == app.containerID # "" /\ app.containerIPv4 # ""

\* what case "start" returns: i is the outcome of the inspection of
\* a.container, pid its State.Pid, inodeFound whether getInode succeeds
StartReturns(i, pid, inodeFound) ==
    IF app.containerID = "" THEN NoError
    ELSE IF ~StartInspects THEN IPNotAvailable
    ELSE IF i = InspectFails THEN InspectError
    ELSE IF pid = NoPid THEN PidNotAvailable
    ELSE IF ~inodeFound THEN InodeError
    ELSE NoError

\* whether case "start" reaches a.inodeChan <- a.inode
StartSends(i, pid, inodeFound) ==
    StartInspects /\ i = Inspected /\ pid # NoPid /\ inodeFound

\* case "start"
StartCase(i, pid, inodeFound) ==
    /\ (i = NotInspected) <=> ~StartInspects
    /\ i # Inspected => pid = NoPid
    /\ pid = NoPid => ~inodeFound
    /\ IF StartSends(i, pid, inodeFound)
       THEN /\ app' = [app EXCEPT !.inode = Inode]
            /\ inodeChan' = Append(inodeChan, Inode)
       ELSE /\ app' = app
            /\ inodeChan' = inodeChan
    /\ handled' = Append(handled,
           Returned("start", NoID, i, pid, StartReturns(i, pid, inodeFound)))

StartEvent(i, pid, inodeFound) ==
    /\ HasDockerEvent
    /\ StartCase(i, pid, inodeFound)
    /\ UNCHANGED nonDockerVars

handleDockerEvents ==
    \/ \E id \in EventIDs, c \in ContainerNames \cup {InspectFails} :
          CreateEvent(id, c)
    \/ \E n \in IPAddresses \cup {NotInspected, InspectFails,
                                  NoNetworkSettings, NetworkNotFound} :
          ConnectEvent(n)
    \/ \E i \in {NotInspected, InspectFails, Inspected},
          pid \in {NoPid, RunningPid}, inodeFound \in BOOLEAN :
          StartEvent(i, pid, inodeFound)

DockerNext == handleDockerEvents

DockerSpec == DockerInit /\ [][DockerNext]_vars

(***************************************************************************)
(* App.Run: in native mode the caller's goroutine executes App.run; in     *)
(* docker mode runDocker derives a context, starts the listener of         *)
(* getDockerMeta and a goroutine for App.run, and waits in a select.  The  *)
(* channels errCh are unbuffered: a send completes when the other side     *)
(* receives.  The caller may cancel its context at any moment.             *)
(***************************************************************************)
\* models.AppErrorType
ErrCtxCanceled == "ErrCtxCanceled"
ErrAppStopped == "ErrAppStopped"
ErrInternal == "ErrInternal"
ErrCommandError == "ErrCommandError"
ErrUnExpected == "ErrUnExpected"
\* the errors that travel
LookupError == "failed to lookup user"
StartError == "failed to start the command"
ExitError == "exit status 1"
TimeoutError == "timeout waiting for the container to start"
EventsError == "error from the docker events stream"

Native == "native"
Docker == "docker"

RunInit ==
    /\ FactoryInit
    /\ MatchIdle
    /\ ClassifyIdle /\ HandshakeIdle /\ YamlIdle /\ CodecIdle /\ SessionsIdle
    /\ LenencIdle
    /\ DockerIdle
    /\ runCfg \in [kind : {Native, Docker}, cmd : {"", "app"}]
    /\ ctxs = [caller |-> FALSE, child |-> FALSE]
    /\ proc = "none"
    /\ mainF = [pc |-> "call", ret |-> NoAppError]
    /\ runner = [pc |-> "none", ret |-> NoAppError]
    /\ listener = [pc |-> "none", err |-> "nil", timer |-> "none",
                   events |-> "none"]

\* ctx of runDocker: context.WithCancel(ctx) is done when the caller's is
\* done or cancel() has been called
ChildDone == ctxs.caller \/ ctxs.child
\* the ctx App.run was given
RunCtxDone == IF runCfg.kind = Native THEN ctxs.caller ELSE ChildDone

\* getDockerMeta: timer and ticker created, a.docker.Events subscribed, the
\* listener goroutine started
ListenerStarted ==
    [pc |-> "select", err |-> "nil", timer |-> "armed", events |-> "open"]

\* how runDocker returns: the deferred cancel() runs
runDockerReturns(e) ==
    /\ mainF' = [pc |-> "returned", ret |-> e]
    /\ ctxs' = [ctxs EXCEPT !.child = TRUE]

\* Run, native mode: return a.run(ctx)
RunNative ==
    /\ mainF.pc = "call"
    /\ runCfg.kind = Native
    /\ mainF' = [mainF EXCEPT !.pc = "run"]
    /\ runner' = [runner EXCEPT !.pc = "start"]
    /\ UNCHANGED <<runCfg, ctxs, proc, listener>>
    /\ UNCHANGED <<nonAppVars, dockerVars>>

\* runDocker with a.cmd == "": the listener is started, AppError{} returned
RunDockerNoCmd ==
    /\ mainF.pc = "call"
    /\ runCfg.kind = Docker
    /\ runCfg.cmd = ""
    /\ listener' = ListenerStarted
    /\ runDockerReturns(NoAppError)
    /\ UNCHANGED <<runCfg, proc, runner>>
    /\ UNCHANGED <<nonAppVars, dockerVars>>

\* runDocker with a command: listener and run goroutine started, then select
RunDockerCmd ==
    /\ mainF.pc = "call"
    /\ runCfg.kind = Docker
    /\ runCfg.cmd # ""
    /\ listener' = ListenerStarted
    /\ runner' = [runner EXCEPT !.pc = "start"]
    /\ mainF' = [mainF EXCEPT !.pc = "select"]
    /\ UNCHANGED <<runCfg, ctxs, proc>>
    /\ UNCHANGED <<nonAppVars, dockerVars>>

\* App.run up to cmd.Start(): the lookup of SUDO_USER fails, Start fails, or
\* the process runs
RunCmdStart(o) ==
    /\ runner.pc = "start"
    /\ o = "started" => runCfg.cmd # ""
    /\ IF o = "started"
       THEN /\ proc' = "running"
            /\ runner' = [runner EXCEPT !.pc = "wait"]
       ELSE /\ proc' = proc
            /\ runner' = [pc |-> "ret",
                          ret |-> IF o = "lookup failed"
                                  THEN AppError(ErrInternal, LookupError)
                                  ELSE AppError(ErrCommandError, StartError)]
    /\ UNCHANGED <<runCfg, ctxs, mainF, listener>>
    /\ UNCHANGED <<nonAppVars, dockerVars>>

\* the application exits on its own, cleanly or not
ProcExits(status) ==
    /\ proc = "running"
    /\ proc' = status
    /\ UNCHANGED <<runCfg, ctxs, mainF, runner, listener>>
    /\ UNCHANGED <<nonAppVars, dockerVars>>

\* exec.CommandContext kills the process once its ctx is done
ProcKilled ==
    /\ proc = "running"
    /\ RunCtxDone
    /\ proc' = "killed"
    /\ UNCHANGED <<runCfg, ctxs, mainF, runner, listener>>
    /\ UNCHANGED <<nonAppVars, dockerVars>>

\* err = cmd.Wait(); select { case <-ctx.Done(): ... default: ... }
RunWait ==
    /\ runner.pc = "wait"
    /\ proc \in {"exited0", "exited1", "killed"}
    /\ runner' = [pc |-> "ret",
                  ret |-> IF RunCtxDone
                          THEN AppError(ErrCtxCanceled, "nil")
                          ELSE IF proc = "exited0"
                          THEN AppError(ErrAppStopped, "nil")
                          ELSE AppError(ErrUnExpected, ExitError)]
    /\ UNCHANGED <<runCfg, ctxs, proc, mainF, listener>>
    /\ UNCHANGED <<nonAppVars, dockerVars>>

\* Run, native mode: a.run has returned, Run returns its result
RunNativeReturn ==
    /\ mainF.pc = "run"
    /\ runner.pc = "ret"
    /\ mainF' = [pc |-> "returned", ret |-> runner.ret]
    /\ runner' = [runner EXCEPT !.pc = "done"]
    /\ UNCHANGED <<runCfg, ctxs, proc, listener>>
    /\ UNCHANGED <<nonAppVars, dockerVars>>

\* the goroutine of runDocker after a.run: if err.Err != nil { errCh <- }
\* else the function ends and the deferred cancel() runs
RunGoroutineAfterRun ==
    /\ runCfg.kind = Docker
    /\ runner.pc = "ret"
    /\ IF runner.ret.Err # "nil"
       THEN /\ runner' = [runner EXCEPT !.pc = "send"]
            /\ ctxs' = ctxs
       ELSE /\ runner' = [runner EXCEPT !.pc = "done"]
            /\ ctxs' = [ctxs EXCEPT !.child = TRUE]
    /\ UNCHANGED <<runCfg, proc, mainF, listener>>
    /\ UNCHANGED <<nonAppVars, dockerVars>>

\* the goroutine of runDocker after its send was received: deferred cancel()
RunGoroutineCancel ==
    /\ runner.pc = "sent"
    /\ runner' = [runner EXCEPT !.pc = "done"]
    /\ ctxs' = [ctxs EXCEPT !.child = TRUE]
    /\ UNCHANGED <<runCfg, proc, mainF, listener>>
    /\ UNCHANGED <<nonAppVars, dockerVars>>

\* select of runDocker, case err := <-errCh
SelectErrCh ==
    /\ mainF.pc = "select"
    /\ runner.pc = "send"
    /\ runDockerReturns(AppError(ErrInternal, runner.ret.Err))
    /\ runner' = [runner EXCEPT !.pc = "sent"]
    /\ UNCHANGED <<runCfg, proc, listener>>
    /\ UNCHANGED <<nonAppVars, dockerVars>>

\* select of runDocker, case err := <-errCh2
SelectErrCh2 ==
    /\ mainF.pc = "select"
    /\ listener.pc = "send"
    /\ runDockerReturns(AppError(ErrInternal, listener.err))
    /\ listener' = [listener EXCEPT !.pc = "select", !.err = "nil"]
    /\ UNCHANGED <<runCfg, proc, runner>>
    /\ UNCHANGED <<nonAppVars, dockerVars>>

\* select of runDocker, case <-ctx.Done()
SelectCtxDone ==
    /\ mainF.pc = "select"
    /\ ChildDone
    /\ runDockerReturns(AppError(ErrCtxCanceled, "nil"))
    /\ UNCHANGED <<runCfg, proc, runner, listener>>
    /\ UNCHANGED <<nonAppVars, dockerVars>>

\* the listener chooses a case of its select and does not touch the rest
ListenerTakes(l) ==
    /\ listener.pc = "select"
    /\ listener' = l
    /\ UNCHANGED <<runCfg, ctxs, proc, mainF, runner>>
    /\ UNCHANGED <<nonAppVars, dockerVars>>

\* case <-timer.C: errCh <- errors.New("timeout waiting ...")
ListenerTimer ==
    /\ listener.timer = "armed"
    /\ ListenerTakes([listener EXCEPT !.pc = "send", !.err = TimeoutError,
                                      !.timer = "fired"])

\* case <-ctx.Done(): a debug log, and the loop goes on
ListenerCtxDone ==
    /\ ChildDone
    /\ ListenerTakes([listener EXCEPT !.pc = "done"])

\* case <-logTicker.C: a debug log
ListenerTick ==
    /\ listener.pc = "select"
    /\ ListenerTakes([listener EXCEPT !.pc = "tick"])

\* case e := <-messages
ListenerMessage ==
    /\ Len(handled) < MaxMessages
    /\ ListenerTakes([listener EXCEPT !.pc = "event"])

\* case err := <-errCh2: errCh <- err
ListenerEventsErr ==
    /\ listener.events = "open"
    /\ ListenerTakes([listener EXCEPT !.pc = "send", !.err = EventsError,
                                      !.events = "failed"])

\* the end of a case that only logs: next iteration of the for loop
ListenerLogged ==
    /\ listener.pc \in {"done", "tick"}
    /\ listener' = [listener EXCEPT !.pc = "select"]
    /\ UNCHANGED <<runCfg, ctxs, proc, mainF, runner>>
    /\ UNCHANGED <<nonAppVars, dockerVars>>

\* err := a.handleDockerEvents(ctx, e); if err != nil { errCh <- err }
ListenerHandles ==
    /\ listener.pc = "event"
    /\ \/ \E id \in EventIDs, c \in ContainerNames \cup {InspectFails} :
             CreateCase(id, c)
       \/ \E n \in IPAddresses \cup {NotInspected, InspectFails,
                                     NoNetworkSettings, NetworkNotFound} :
             ConnectCase(n)
       \/ \E i \in {NotInspected, InspectFails, Inspected},
             pid \in {NoPid, RunningPid}, inodeFound \in BOOLEAN :
             StartCase(i, pid, inodeFound)
    /\ LET err == handled'[Len(handled')].ret IN
       listener' = IF err = NoError
                   THEN [listener EXCEPT !.pc = "select"]
                   ELSE [listener EXCEPT !.pc = "send", !.err = err]
    /\ UNCHANGED <<runCfg, ctxs, proc, mainF, runner>>
    /\ UNCHANGED nonAppVars

\* the caller of Run cancels its context
CallerCancels ==
    /\ ~ctxs.caller
    /\ ctxs' = [ctxs EXCEPT !.caller = TRUE]
    /\ UNCHANGED <<runCfg, proc, mainF, runner, listener>>
    /\ UNCHANGED <<nonAppVars, dockerVars>>

\* the goroutine that called Run
Run ==
    \/ RunNative
    \/ RunDockerNoCmd
    \/ RunDockerCmd
    \/ RunNativeReturn
    \/ SelectErrCh
    \/ SelectErrCh2
    \/ SelectCtxDone

\* App.run and, in docker mode, the goroutine around it
run ==
    \/ \E o \in {"lookup failed", "start failed", "started"} : RunCmdStart(o)
    \/ RunWait
    \/ RunGoroutineAfterRun
    \/ RunGoroutineCancel

\* the goroutine of getDockerMeta
getDockerMeta ==
    \/ ListenerTimer
    \/ ListenerCtxDone
    \/ ListenerTick
    \/ ListenerMessage
    \/ ListenerEventsErr
    \/ ListenerLogged
    \/ ListenerHandles

RunNext ==
    \/ Run
    \/ run
    \/ getDockerMeta
    \/ \E status \in {"exited0", "exited1"} : ProcExits(status)
    \/ ProcKilled
    \/ CallerCancels

RunSpec == RunInit /\ [][RunNext]_vars

\* every goroutine that can take a step takes one, and a process whose
\* context is done is killed
RunFairSpec ==
    /\ RunSpec
    /\ WF_vars(Run)
    /\ WF_vars(run)
    /\ WF_vars(getDockerMeta)
    /\ WF_vars(ProcKilled)

(***************************************************************************)
(* Properties.                                                             *)
(***************************************************************************)
\* a worker goroutine that has been started and has not returned
Running(w) == wpc[w] \in {"select", "lock", "send"}
\* the workers started for connID c that are running
RunningFor(c) == {w \in Workers : Running(w) /\ wconn[w] = c}
\* whether connID c has been opened and not closed since
Live(c) == connections[c] # 0
\* the test cases worker w has sent whose res accumulator was r
EmissionsOf(w, r) ==
    {i \in DOMAIN emitted : emitted[i].w = w /\ emitted[i].res = r}
\* the test cases worker w has sent
EmittedBy(w) == {i \in DOMAIN emitted : emitted[i].w = w}
\* worker w's accumulators start with a well-formed request and response
Complete(w) ==
    /\ req[w] # <<>> /\ Head(req[w]).kind = WellFormed
    /\ res[w] # <<>> /\ Head(res[w]).kind = WellFormed

\* C1: a test case is sent on t only when the worker's req and res
\* accumulators are both non-empty, also on a connection whose first data
\* event is egress.
C1_NoEmissionWithoutReqAndRes ==
    /\ \A i \in DOMAIN emitted :
          emitted[i].req # <<>> /\ emitted[i].res # <<>>
    /\ \A w \in Workers :
          wpc[w] = "send" => req[w] # <<>> /\ res[w] # <<>>

\* a test case has been sent by a worker whose first data event was egress
C1_Witness ==
    \E i \in DOMAIN emitted :
        Head(emitted[i].res).id < Head(emitted[i].req).id

\* C2: every live connID has exactly one running worker (while the process
\* is up and ctx is not cancelled).
C2_OneWorkerPerLiveConn ==
    (~crashed /\ ~ctxDone) =>
        \A c \in ConnIDs : Live(c) => Cardinality(RunningFor(c)) = 1

\* C3: ProcessActiveTrackers never waits on the worker of a connID that has
\* a channel: a data event that finds the channel full is dropped.
C3_ProducerNeverBlocks ==
    ~(pat.blocked /\ pat.ch # 0)

\* worker w has received, in this order and nothing else, a well-formed
\* request, a well-formed response and a second request, and is back at its
\* select
C6_ScenarioDone(w) ==
    /\ wpc[w] = "select"
    /\ chanBuf[w] = <<>>
    /\ Len(req[w]) = 2 /\ Len(res[w]) = 1
    /\ req[w][1].id < res[w][1].id /\ res[w][1].id < req[w][2].id
    /\ req[w][1].kind = WellFormed /\ res[w][1].kind = WellFormed

\* C6: after request1, response1, request2 exactly one test case has been
\* sent, built from request1 and response1; and in general a worker at its
\* select has sent no test case for a response it is still accumulating and
\* exactly one for a completed request/response pair, never two.
C6_OneTestCasePerExchange ==
    ~crashed =>
      \A w \in Workers :
        /\ C6_ScenarioDone(w) =>
              /\ Cardinality(EmittedBy(w)) = 1
              /\ \A i \in EmittedBy(w) :
                    /\ emitted[i].HTTPReq = req[w][1]
                    /\ emitted[i].HTTPResp = res[w][1]
        /\ wpc[w] \in {"select", "done"} =>
              /\ lastEventType[w] = EgressTraffic =>
                    EmissionsOf(w, res[w]) = {}
              /\ (lastEventType[w] # EgressTraffic /\ Complete(w)) =>
                    Cardinality(EmissionsOf(w, res[w])) = 1

\* the scenario has run, and its test case was sent on the transition
C6_Witness ==
    \E w \in Workers :
        /\ C6_ScenarioDone(w)
        /\ \E i \in EmittedBy(w) : emitted[i].path = "transition"

\* C4: once its channel is closed, a worker terminates, with no need for ctx
\* to be cancelled.
C4_WorkerExitsAfterClose ==
    \A w \in Workers : chanClosed[w] ~> (wpc[w] = "done" \/ crashed)

\* the channel of worker w is closed and drained while the pair it has
\* accumulated, ending in an egress event, has not been emitted
C5_Pending(w) ==
    /\ chanClosed[w] /\ chanBuf[w] = <<>>
    /\ wpc[w] = "select"
    /\ lastEventType[w] = EgressTraffic
    /\ Complete(w)

\* worker w has nothing pending: its channel is closed and drained and the
\* last event it took was not egress
C5_NothingPending(w) ==
    /\ chanClosed[w] /\ chanBuf[w] = <<>>
    /\ wpc[w] = "select"
    /\ lastEventType[w] # EgressTraffic

\* C5: a pair that is pending when the channel is closed gets emitted, once
\* (unless the process dies or ctx ends the worker first); a worker with
\* nothing pending emits nothing after the close.
C5_PendingPairEmittedOnClose ==
    /\ \A w \in Workers :
          C5_Pending(w) ~>
             \/ Cardinality(EmissionsOf(w, res[w])) = 1
             \/ crashed
             \/ (ctxDone /\ wpc[w] = "done")
    /\ [][\A w \in Workers :
            C5_NothingPending(w) =>
               /\ wpc'[w] \in {"select", "done"}
               /\ EmittedBy(w)' = EmittedBy(w)]_vars

\* a worker has sent a test case on a transition that no ingress payload
\* caused: the zero event of its closed channel did
C5_Witness ==
    \E i \in DOMAIN emitted :
        /\ emitted[i].path = "transition"
        /\ chanClosed[emitted[i].w]
        /\ \A k \in DOMAIN emitted[i].req :
              emitted[i].req[k].id < emitted[i].res[Len(emitted[i].res)].id

\* the id of the last response payload of test case e
LastRes(e) == e.res[Len(e.res)].id
\* the id of the request payload that response answers (0 when there is none)
ExchangeReq(e) ==
    LET before == {e.req[k].id : k \in DOMAIN e.req} \cap 0..LastRes(e)
    IN IF before = {} THEN 0 ELSE CHOOSE m \in before : \A n \in before : n <= m

\* C7: on one connID, a test case whose response was received before
\* another test case's request is sent before it.
C7_PerConnFIFO ==
    \A i, j \in DOMAIN emitted :
        (/\ emitted[i].conn = emitted[j].conn
         /\ LastRes(emitted[i]) < ExchangeReq(emitted[j])) => i < j

\* C8: a request or response that fails to parse never stops the factory:
\* no worker dies of it.
C8_MalformedNeverStopsFactory ==
    panic # NilDereference

\* C10: MatchType returns true exactly for the buffers of at least 8 bytes
\* whose bytes 4..7 are 00 03 00 00 or 04 D2 16 2F; shorter buffers, the
\* empty one included, give false, and bytes 0..3 play no part.
C10_MatchTypeExact ==
    matchPc = "return" =>
        (matched <=>
            /\ Len(reqBuf) >= 8
            /\ \/ SubSeq(reqBuf, 5, 8) = <<0, 3, 0, 0>>
               \/ SubSeq(reqBuf, 5, 8) = <<4, 210, 22, 47>>)

\* the SSLRequest buffer of the specification's scenario has been accepted
C10_Witness ==
    /\ matchPc = "return"
    /\ matched
    /\ reqBuf = <<0, 0, 0, 8, 4, 210, 22, 47>>

\* C9: once ctx is cancelled every worker returns, wherever it is.
C9_WorkersReturnOnCancel ==
    ctxDone ~> (crashed \/ \A w \in Workers : ~Running(w))

(***************************************************************************)
(* Classification.                                                         *)
(***************************************************************************)
\* C11: Generic.MatchType accepts no buffer, and the classifier returns
\* generic exactly for the buffers that PostgresV1.MatchType rejects, in
\* whatever order it visits the registry.
C11_GenericOnlyByFallThrough ==
    (matchPc = "return" /\ order # <<>>) =>
        /\ ~GenericMatchType(reqBuf)
        /\ MatchType(reqBuf) => codec = PostgresName
        /\ ~MatchType(reqBuf) => codec = GenericName

\* "GET / HT" has been classified as generic with generic visited first
C11_Witness ==
    /\ matchPc = "return"
    /\ reqBuf = GetRequestHead
    /\ order = <<GenericName, PostgresName>>
    /\ codec = GenericName

(***************************************************************************)
(* MySQL handshake response decoding.                                      *)
(***************************************************************************)
decodeReturned == hsOut.outcome # "pending"
IsExample(data) == \E au \in ExampleAuths : Bytes(data) = ExamplePacket(au)

\* C12: the example packet decodes to Username "root", Database "test",
\* AuthPluginName "mysql_native_password", ConnectAttributes {"foo": "bar"}.
C12_ExampleDecodes ==
    (decodeReturned /\ IsExample(hsData)) =>
        /\ hsOut.outcome = "ok"
        /\ hsOut.packet.Username = RootName
        /\ hsOut.packet.Database = TestName
        /\ hsOut.packet.AuthPluginName = NativePasswordName
        /\ hsOut.packet.ConnectAttributes = MapPut(<<>>, FooName, BarName)

\* C13: every call returns a record or an error: none crashes.
C13_DecodeNeverCrashes ==
    decodeReturned => hsOut.outcome \in {"ok", "error"}

\* the bytes after the 32-byte head
TailOf(data) == SubSeq(data.a, 33, data.n)
FlagsOf(data) == LittleEndianUint32(data)
\* The tail is a terminated username, an auth length of 0 and the skipped
\* byte, so that the next field starts right after them; that field has
\* bytes, and no 0x00 among them.
NextFieldUnterminated(data) ==
    /\ data.n >= 32
    /\ ~HasFlag(FlagsOf(data), CLIENT_PLUGIN_AUTH_LENENC_CLIENT_DATA)
    /\ \E i \in 1..Len(TailOf(data)) :
          /\ TailOf(data)[i] = 0
          /\ \A j \in 1..(i - 1) : TailOf(data)[j] # 0
          /\ Len(TailOf(data)) > i + 2
          /\ TailOf(data)[i + 1] = 0
          /\ \A j \in (i + 3)..Len(TailOf(data)) : TailOf(data)[j] # 0
UsernameUnterminated(data) ==
    /\ data.n >= 32
    /\ \A j \in 1..Len(TailOf(data)) : TailOf(data)[j] # 0
DatabaseUnterminated(data) ==
    /\ NextFieldUnterminated(data)
    /\ HasFlag(FlagsOf(data), CLIENT_CONNECT_WITH_DB)
PluginNameUnterminated(data) ==
    /\ NextFieldUnterminated(data)
    /\ ~HasFlag(FlagsOf(data), CLIENT_CONNECT_WITH_DB)
    /\ HasFlag(FlagsOf(data), CLIENT_PLUGIN_AUTH)

\* C14: a username, database name or plugin name without its 0x00 terminator
\* makes the call fail; it never returns a record.
C14_UnterminatedFieldFails ==
    (/\ decodeReturned
     /\ \/ UsernameUnterminated(hsData)
        \/ DatabaseUnterminated(hsData)
        \/ PluginNameUnterminated(hsData))
        => hsOut.outcome = "error"

(***************************************************************************)
(* The yaml file utilities.                                                *)
(***************************************************************************)
\* C15: ctxWriter.Write hands a chunk to the underlying writer only after a
\* check that found ctx not cancelled; a check that finds ctx cancelled
\* writes nothing and returns the bytes accepted so far with ctx's error,
\* which is not the underlying writer's error.  ctxReader.Read with ctx
\* cancelled reads nothing and returns (0, ctx's error).
C15_CancellationServicedPerChunk ==
    /\ [](wf.pc = "written" =>
            /\ wf.cw.n = Len(file.bytes)
            /\ wf.cw.err \in {NoError, Canceled, IOError}
            /\ wf.cw.err = Canceled => yCtxDone)
    /\ [][/\ (wf'.pc = "write" /\ wf.pc # "write") =>
                (wf.pc = "check" /\ ~yCtxDone)
          /\ (file'.bytes # file.bytes /\ file'.bytes # <<>>) =>
                wf.pc = "write"
          /\ (wf.pc = "check" /\ wf.p # <<>> /\ yCtxDone) =>
                /\ file' = file
                /\ wf'.pc = "written"
                /\ wf'.cw = [n |-> Len(file.bytes), err |-> Canceled]
          /\ (rf.pc = "read" /\ yCtxDone) =>
                /\ rf'.pos = rf.pos
                /\ rf'.data = rf.data
                /\ rf'.cr = [n |-> 0, err |-> Canceled]]_vars

\* Write has returned on a cancellation that came between two chunks
C15_Witness ==
    /\ wf.pc = "written"
    /\ wf.cw.err = Canceled
    /\ wf.cw.n > 0
    /\ wf.p # <<>>

\* d1, "---\n", d2, ..., "---\n", dn
RECURSIVE Documents(_)
Documents(n) ==
    IF n = 0 THEN <<>>
    ELSE IF n = 1 THEN Doc(1)
    ELSE Documents(n - 1) \o Separator \o Doc(n)

\* C17: after WriteFile calls that all succeeded, ReadFile returns every
\* document written, in write order, with "---\n" between them.
C17_ReadReturnsAllWritten ==
    (/\ rf.pc = "done" /\ rf.ret.err = NoError
     /\ wf.pc = "done"
     /\ ~yCtxDone
     /\ \A i \in DOMAIN wrote : wrote[i].err = NoError)
        => rf.ret.data = Documents(Len(wrote))

(***************************************************************************)
(* The codecs' RecordOutgoing and MockOutgoing.                            *)
(***************************************************************************)
codecReturned == codecFrame.pc = "done"

\* C16: a call whose read or encode/decode step ended on ctx's cancellation
\* returns nil and logs nothing at error level.
C16_CancellationIsSuccess ==
    (/\ codecReturned
     /\ Canceled \in {codecFrame.readErr, codecFrame.stepErr})
        => (codecFrame.ret = NoError /\ codecFrame.logged = 0)

\* C19: a call returns nil exactly when the initial read and the
\* encode/decode step both succeeded, and the step is not run after a failed
\* read.
C19_FailuresSurface ==
    codecReturned =>
        /\ codecFrame.ret = NoError <=>
              (codecFrame.readErr = NoError /\ codecFrame.stepErr = NoError)
        /\ codecFrame.readErr # NoError => codecFrame.stepErr = NotRun

\* a call has returned an error for a failed encode/decode after a good read
C19_Witness ==
    /\ codecReturned
    /\ codecFrame.readErr = NoError
    /\ codecFrame.stepErr = IOError
    /\ codecFrame.ret = CallFailed(codecFrame.name, codecFrame.mode)

(***************************************************************************)
(* Session indices.                                                        *)
(***************************************************************************)
\* the names in sequence s
Range(s) == {s[i] : i \in DOMAIN s}

\* C18: the result names every entry other than "testReports" once and
\* never "testReports"; a directory that does not open gives the empty list
\* and a nil error.
C18_IndicesAreTheOtherEntries ==
    sessions.pc = "return" =>
        /\ ~sessionDir.opens =>
              (sessions.indices = <<>> /\ sessions.err = NoError)
        /\ (sessionDir.opens /\ sessionDir.lists) =>
              /\ Range(sessions.indices) =
                    Range(sessionDir.files) \ {ReservedName}
              /\ Len(sessions.indices) = Cardinality(Range(sessions.indices))
              /\ sessions.err = NoError

\* a directory with "testReports" and two sessions has been listed
C18_Witness ==
    /\ sessions.pc = "return"
    /\ sessionDir.opens /\ sessionDir.lists
    /\ ReservedName \in Range(sessionDir.files)
    /\ Len(sessions.indices) = 2

(***************************************************************************)
(* What a test case emitted on the egress -> ingress transition holds.     *)
(***************************************************************************)
\* test cases i and j share a payload
SharePayload(i, j) ==
    \/ Range(emitted[i].req) \cap Range(emitted[j].req) # {}
    \/ Range(emitted[i].res) \cap Range(emitted[j].res) # {}

\* C20: the request of a test case emitted on the transition holds only
\* payloads received before its response payloads, and no payload of a test
\* case emitted earlier by the same worker.
C20_TransitionEmitsOneExchange ==
    \A i \in DOMAIN emitted :
        emitted[i].path = "transition" =>
            /\ \A k \in DOMAIN emitted[i].req, j \in DOMAIN emitted[i].res :
                  emitted[i].req[k].id < emitted[i].res[j].id
            /\ \A j \in 1..(i - 1) :
                  emitted[j].w = emitted[i].w => ~SharePayload(i, j)

(***************************************************************************)
(* What the two-second timeout of a worker emits.                          *)
(***************************************************************************)
\* worker w waits at its select with nothing to receive: only its timeout
\* can fire
Silent(w) ==
    /\ AtSelect(w)
    /\ chanBuf[w] = <<>> /\ ~chanClosed[w] /\ ~ctxDone
\* the test cases worker w has sent from its timeout
TimeoutEmissions(w) == {i \in EmittedBy(w) : emitted[i].path = "timeout"}
\* of the payloads in rq and rs, the one received last is in rs
LastIsEgress(rq, rs) ==
    /\ rs # <<>>
    /\ \A k \in DOMAIN rq : rq[k].id < rs[Len(rs)].id

\* C21: a timeout after an egress event captures the accumulated req and
\* res, and with a parsable request and response one test case is sent from
\* them; a timeout after an ingress event or after a timeout sends nothing;
\* no two timeouts of a worker send the same pair.
C21_TimeoutEmitsAfterEgressOnly ==
    /\ [](\A i \in DOMAIN emitted :
            emitted[i].path = "timeout" =>
                LastIsEgress(emitted[i].req, emitted[i].res))
    /\ [](\A w \in Workers : \A i, j \in TimeoutEmissions(w) :
            i # j => <<emitted[i].req, emitted[i].res>> #
                     <<emitted[j].req, emitted[j].res>>)
    /\ [](\A w \in Workers :
            (/\ ~crashed
             /\ wpc[w] \in {"select", "done"}
             /\ lastEventType[w] = NoEvent
             /\ LastIsEgress(req[w], res[w])
             /\ Complete(w)) =>
                Cardinality({i \in TimeoutEmissions(w) :
                                /\ emitted[i].req = req[w]
                                /\ emitted[i].res = res[w]}) = 1)
    /\ [][\A w \in Workers :
            (/\ Silent(w)
             /\ wpc'[w] # wpc[w] \/ lastEventType'[w] # lastEventType[w]) =>
                IF lastEventType[w] = EgressTraffic
                THEN /\ wpc'[w] = "lock"
                     /\ wnext'[w] = NoEvent
                     /\ req'[w] = req[w] /\ res'[w] = res[w]
                ELSE /\ wpc'[w] = "select"
                     /\ lastEventType'[w] = NoEvent
                     /\ emitted' = emitted]_vars

\* a worker has sent a test case from its timeout, for a request and the
\* response that followed it, and waits at its select again
C21_Witness ==
    \E w \in Workers :
        /\ TimeoutEmissions(w) # {}
        /\ Silent(w) /\ lastEventType[w] = NoEvent
        /\ Complete(w) /\ LastIsEgress(req[w], res[w])

(***************************************************************************)
(* The auth data of a handshake response, and where the next field starts. *)
(***************************************************************************)
\* the index of the first 0x00 of s, and s up to it
FirstZero(s) == CHOOSE i \in 1..Len(s) : s[i] = 0 /\ \A j \in 1..(i - 1) : s[j] # 0
UpToZero(s) == SubSeq(s, 1, FirstZero(s) - 1)
\* the bytes after the terminator of the username
AfterUsername(data) ==
    SubSeq(TailOf(data), FirstZero(TailOf(data)) + 1, Len(TailOf(data)))
\* the bytes before the auth data: the length byte, and the skipped byte when
\* CLIENT_PLUGIN_AUTH_LENENC_CLIENT_DATA is not set
AuthPrefix(data) ==
    IF HasFlag(FlagsOf(data), CLIENT_PLUGIN_AUTH_LENENC_CLIENT_DATA)
    THEN 1 ELSE 2
AuthLength(data) == AfterUsername(data)[1]
\* the packet holds a terminated username, the length prefix and as many
\* bytes of auth data as the length byte says
HoldsAuthData(data) ==
    /\ data.n >= 32
    /\ 0 \in Range(TailOf(data))
    /\ AfterUsername(data) # <<>>
    /\ Len(AfterUsername(data)) >= AuthPrefix(data) + AuthLength(data)
AuthBytes(data) ==
    SubSeq(AfterUsername(data), AuthPrefix(data) + 1,
           AuthPrefix(data) + AuthLength(data))
AfterAuthBytes(data) ==
    SubSeq(AfterUsername(data), AuthPrefix(data) + AuthLength(data) + 1,
           Len(AfterUsername(data)))

\* C22: a decoded packet's AuthData is the L bytes after the length prefix,
\* and its database name (or, without one, its plugin name) is read from the
\* first byte after those L bytes.
C22_AuthDataConsumed ==
    (decodeReturned /\ hsOut.outcome = "ok" /\ HoldsAuthData(hsData)) =>
        /\ hsOut.packet.AuthData = AuthBytes(hsData)
        /\ 0 \in Range(AfterAuthBytes(hsData)) =>
              /\ HasFlag(FlagsOf(hsData), CLIENT_CONNECT_WITH_DB) =>
                    hsOut.packet.Database = UpToZero(AfterAuthBytes(hsData))
              /\ (/\ ~HasFlag(FlagsOf(hsData), CLIENT_CONNECT_WITH_DB)
                  /\ HasFlag(FlagsOf(hsData), CLIENT_PLUGIN_AUTH)) =>
                    hsOut.packet.AuthPluginName =
                        UpToZero(AfterAuthBytes(hsData))

(***************************************************************************)
(* Length-encoded integers.                                                *)
(***************************************************************************)
\* the little-endian value of bytes lo..hi of b, for at most three bytes
RECURSIVE LittleEndianValue(_, _, _)
LittleEndianValue(b, lo, hi) ==
    IF lo > hi THEN 0 ELSE b[lo] + 256 * LittleEndianValue(b, lo + 1, hi)
\* the input holds the whole form its first byte selects
WholeForm(b) ==
    /\ Len(b) >= 1
    /\ b[1] = 252 => Len(b) >= 3
    /\ b[1] = 253 => Len(b) >= 4
    /\ b[1] = 254 => Len(b) >= 9

\* C23: 0xfb gives null with 1 byte read, 0xfc the value of the next 2 bytes
\* with 3 read, 0xfd of the next 3 with 4 read, 0xfe of the next 8 with 9
\* read, any other byte itself with 1 read; the length is never negative and
\* bytesRead never exceeds the length of the input.
C23_LenencFollowsScheme ==
    leiOut.pc = "return" =>
        LET b == Bytes(leiB) IN
        /\ leiOut.length >= 0
        /\ leiOut.bytesRead <= Len(b)
        /\ WholeForm(b) =>
              CASE b[1] = 251 -> leiOut.isNull /\ leiOut.bytesRead = 1
                [] b[1] = 252 ->
                     /\ ~leiOut.isNull /\ leiOut.bytesRead = 3
                     /\ leiOut.length = LittleEndianValue(b, 2, 3)
                [] b[1] = 253 ->
                     /\ ~leiOut.isNull /\ leiOut.bytesRead = 4
                     /\ leiOut.length = LittleEndianValue(b, 2, 4)
                [] b[1] = 254 ->
                     /\ ~leiOut.isNull /\ leiOut.bytesRead = 9
                     /\ (\A i \in 5..9 : b[i] = 0) =>
                           leiOut.length = LittleEndianValue(b, 2, 4)
                [] OTHER ->
                     /\ ~leiOut.isNull /\ leiOut.bytesRead = 1
                     /\ leiOut.length = b[1]

(***************************************************************************)
(* The connection attributes of a handshake response.                      *)
(***************************************************************************)
\* The packet has CLIENT_CONNECT_ATTRS and neither a database nor a plugin
\* name, and its auth length is 0: the attributes start right after the auth
\* length prefix.
AttrsReached(data) ==
    /\ HoldsAuthData(data)
    /\ AuthLength(data) = 0
    /\ HasFlag(FlagsOf(data), CLIENT_CONNECT_ATTRS)
    /\ ~HasFlag(FlagsOf(data), CLIENT_CONNECT_WITH_DB)
    /\ ~HasFlag(FlagsOf(data), CLIENT_PLUGIN_AUTH)
\* the bytes from the total length of the attributes on
AttrBytes(data) == AfterAuthBytes(data)
\* s starts with a length-encoded integer that is null
NullPrefix(s) == s = <<>> \/ s[1] = 251
\* s starts with a one-byte length and holds that many bytes after it
LiteralField(s) == s # <<>> /\ s[1] < 251 /\ Len(s) >= 1 + s[1]
AfterField(s) == SubSeq(s, 2 + s[1], Len(s))
\* the attribute block, when the total length is a one-byte length
HasBlock(data) == LiteralField(AttrBytes(data)) /\ Len(AttrBytes(data)) >= 4
BlockOf(data) == SubSeq(AttrBytes(data), 2, 1 + AttrBytes(data)[1])
AfterBlock(data) == AfterField(AttrBytes(data))
\* reading pairs of one-byte-length fields from block comes to a key length
\* or a value length that is null
RECURSIVE NullInBlock(_)
NullInBlock(block) ==
    IF block = <<>> THEN FALSE
    ELSE IF block[1] = 251 THEN TRUE
    ELSE IF ~LiteralField(block) THEN FALSE
    ELSE IF NullPrefix(AfterField(block)) THEN TRUE
    ELSE IF ~LiteralField(AfterField(block)) THEN FALSE
    ELSE NullInBlock(AfterField(AfterField(block)))

\* C24: a null where the total length, a key length or a value length is
\* needed makes the call fail.
C24_NullLengthFails ==
    (/\ decodeReturned
     /\ AttrsReached(hsData)
     /\ \/ NullPrefix(AttrBytes(hsData))
        \/ HasBlock(hsData) /\ NullInBlock(BlockOf(hsData)))
        => hsOut.outcome = "error"

\* a packet with a null total length has been rejected, or one with a null
\* value length after a key
C24_Witness ==
    /\ decodeReturned
    /\ AttrsReached(hsData)
    /\ HasBlock(hsData)
    /\ LiteralField(BlockOf(hsData))
    /\ NullPrefix(AfterField(BlockOf(hsData)))
    /\ hsOut.outcome = "error"

\* s starts with a one-byte length that reaches past the end of s
OverrunField(s) == s # <<>> /\ s[1] < 251 /\ Len(s) < 1 + s[1]
\* reading pairs of one-byte-length fields from block comes to a key or a
\* value that reaches past the end of the block
RECURSIVE OverrunInBlock(_)
OverrunInBlock(block) ==
    IF block = <<>> THEN FALSE
    ELSE IF OverrunField(block) THEN TRUE
    ELSE IF ~LiteralField(block) THEN FALSE
    ELSE IF OverrunField(AfterField(block)) THEN TRUE
    ELSE IF ~LiteralField(AfterField(block)) THEN FALSE
    ELSE OverrunInBlock(AfterField(AfterField(block)))
\* block is a sequence of pairs of one-byte-length fields and nothing else
RECURSIVE ExactPairs(_)
ExactPairs(block) ==
    \/ block = <<>>
    \/ /\ LiteralField(block)
       /\ LiteralField(AfterField(block))
       /\ ExactPairs(AfterField(AfterField(block)))
FieldOf(s) == SubSeq(s, 2, 1 + s[1])
\* the map those pairs make, a later pair replacing an earlier one of its key
RECURSIVE PairsOf(_, _)
PairsOf(block, m) ==
    IF block = <<>> THEN m
    ELSE PairsOf(AfterField(AfterField(block)),
                 MapPut(m, FieldOf(block), FieldOf(AfterField(block))))

\* C25: the pairs are read from the totalLength bytes of the block and
\* exhaust them; a key or value that reaches past the end of the block makes
\* the call fail; the byte after the block is left for the zstd level.
C25_AttributeBlockExact ==
    (decodeReturned /\ AttrsReached(hsData) /\ HasBlock(hsData)) =>
        /\ OverrunInBlock(BlockOf(hsData)) => hsOut.outcome = "error"
        /\ ExactPairs(BlockOf(hsData)) =>
              /\ hsOut.outcome = "ok"
              /\ hsOut.packet.ConnectAttributes = PairsOf(BlockOf(hsData), <<>>)
              /\ (/\ HasFlag(FlagsOf(hsData),
                             CLIENT_ZSTD_COMPRESSION_ALGORITHM)
                  /\ AfterBlock(hsData) # <<>>) =>
                    hsOut.packet.ZstdCompressionLevel = AfterBlock(hsData)[1]

(***************************************************************************)
(* The zstd compression level of a handshake response.                     *)
(***************************************************************************)
\* The fields before the zstd level are a username, auth data and, with
\* CLIENT_CONNECT_ATTRS, an attribute block of exact pairs after an auth
\* length of 0: what follows them is known from the bytes alone.
FieldsBeforeLevel(data) ==
    /\ HoldsAuthData(data)
    /\ ~HasFlag(FlagsOf(data), CLIENT_CONNECT_WITH_DB)
    /\ ~HasFlag(FlagsOf(data), CLIENT_PLUGIN_AUTH)
    /\ HasFlag(FlagsOf(data), CLIENT_CONNECT_ATTRS) =>
          /\ AuthLength(data) = 0
          /\ HasBlock(data)
          /\ ExactPairs(BlockOf(data))
\* the bytes that remain after those fields
Residual(data) ==
    IF HasFlag(FlagsOf(data), CLIENT_CONNECT_ATTRS)
    THEN AfterBlock(data)
    ELSE AfterAuthBytes(data)

\* C26: the call succeeds, and ZstdCompressionLevel is the first byte that
\* remains after the preceding fields when CLIENT_ZSTD_COMPRESSION_ALGORITHM
\* is set and a byte remains, and 0 otherwise.
C26_ZstdLevelIffFlagAndResidual ==
    (decodeReturned /\ FieldsBeforeLevel(hsData)) =>
        /\ hsOut.outcome = "ok"
        /\ hsOut.packet.ZstdCompressionLevel =
              IF /\ HasFlag(FlagsOf(hsData), CLIENT_ZSTD_COMPRESSION_ALGORITHM)
                 /\ Residual(hsData) # <<>>
              THEN Residual(hsData)[1]
              ELSE 0

(***************************************************************************)
(* What WriteFile and ReadFile return after a cancellation.                *)
(***************************************************************************)
\* C27: WriteFile returns nil when its write was stopped by the
\* cancellation, and ReadFile returns (nil, nil) when its read was; an error
\* of the file, in creating, opening, writing or reading it, is returned as
\* an error.
C27_CancellationIsNotAFailure ==
    [][/\ (wf.pc = "written" /\ wf'.pc = "done") =>
             /\ wf.cw.err = Canceled => (yCtxDone /\ wf'.err = NoError)
             /\ wf.cw.err = IOError => wf'.err # NoError
             /\ wf.cw.err = NoError => wf'.err = NoError
             /\ wrote' = Append(wrote, [doc |-> wf.calls, err |-> wf'.err])
       /\ (wf.pc \in {"idle", "done", "open"} /\ wf'.pc = "done"
             /\ wf' # wf) => wf'.err # NoError
       /\ (rf.pc = "read" /\ rf'.pc = "done") =>
             /\ rf'.cr.err = Canceled =>
                   (yCtxDone /\ rf'.ret = [data |-> <<>>, err |-> NoError])
             /\ rf'.cr.err = IOError => rf'.ret.err # NoError
             /\ rf'.cr.err = "EOF" => rf'.ret.err = NoError
       /\ (rf.pc \in {"idle", "done"} /\ rf'.pc = "done" /\ rf' # rf) =>
             rf'.ret.err # NoError]_vars

\* a WriteFile stopped by the cancellation after part of its bytes has
\* returned nil, and so has a ReadFile stopped by it
C27_Witness ==
    /\ wf.pc = "done" /\ wf.cw.err = Canceled /\ wf.err = NoError
    /\ wf.cw.n > 0
    /\ rf.pc = "done" /\ rf.cr.err = Canceled /\ rf.ret.err = NoError

(***************************************************************************)
(* Termination of decodeHandshakeResponse.                                 *)
(***************************************************************************)
\* C28: no call stays in the loop over the attribute block for ever: every
\* iteration consumes a byte of the block or returns.
C28_DecodeTerminates ==
    hsOut.outcome # "hang"

(***************************************************************************)
(* Events for a connID without a channel.                                  *)
(***************************************************************************)
\* C29: a data or close event whose connID has no channel (never opened, or
\* already closed) neither blocks ProcessActiveTrackers for ever nor crashes
\* the process.
C29_UnknownConnHandled ==
    /\ panic # CloseOfNil
    /\ ~(pat.blocked /\ pat.ch = 0)

(***************************************************************************)
(* Docker mode: when the container inode is sent.                          *)
(***************************************************************************)
\* the event handleDockerEvents returned from last
LastHandled == handled[Len(handled)]

\* the k-th event was a start that sent the inode
SentAt(k) ==
    /\ handled[k].Action = "start"
    /\ handled[k].seen = Inspected
    /\ handled[k].ret = NoError

\* the k-th event was a create for the container named as the app container
CreatedAt(k) ==
    handled[k].Action = "create" /\ handled[k].seen = SlashContainer

\* the k-th event was a connect that found a non-empty address
AddressAt(k) ==
    /\ handled[k].Action = "connect"
    /\ handled[k].seen \in IPAddresses \ {""}

\* C30: an inode is sent on inodeChan only by a start event handled after a
\* create event for the container named as the app container, which set the
\* container ID, and after a connect event that recorded a non-empty IPv4
\* address; a create event for a container of another name changes nothing,
\* and a start event handled while the IP is unknown sends nothing.
C30_InodeSentAfterCreateAndConnect ==
    /\ [](/\ Len(inodeChan) =
               Cardinality({k \in DOMAIN handled : SentAt(k)})
          /\ \A k \in DOMAIN handled :
                SentAt(k) =>
                    /\ \E i \in 1..(k - 1) : CreatedAt(i)
                    /\ \E j \in 1..(k - 1) : AddressAt(j))
    /\ [][/\ inodeChan' # inodeChan =>
                /\ LastHandled'.Action = "start"
                /\ app.containerID \in EventIDs
                /\ app.containerIPv4 # ""
                /\ inodeChan' = Append(inodeChan, app'.inode)
          /\ (/\ LastHandled'.Action = "create"
              /\ LastHandled'.seen \in ContainerNames \ {SlashContainer}) =>
                (app' = app /\ inodeChan' = inodeChan)
          /\ (LastHandled'.Action = "start" /\ app.containerIPv4 = "") =>
                inodeChan' = inodeChan]_vars

\* the inode has been sent by a start event that followed a create for a
\* container of another name, which changed nothing, and the create and
\* connect of the app container; or that followed a start which came before
\* the IP was known and returned its error
C30_Witness ==
    /\ Len(inodeChan) = 1
    /\ SentAt(Len(handled))
    /\ \/ \E k \in DOMAIN handled :
             /\ handled[k].Action = "create"
             /\ handled[k].seen = "/db"
       \/ \E k \in DOMAIN handled :
             /\ handled[k].Action = "start"
             /\ handled[k].ret = IPNotAvailable

(***************************************************************************)
(* ctxWriter.Write over partial writes.                                    *)
(***************************************************************************)
\* the data WriteFile hands to cw.Write in the current call
WriteData == (IF wf.isFileEmpty THEN <<>> ELSE Separator) \o wf.doc

\* the goroutine is inside cw.Write
InWrite == wf.pc \in {"check", "write"}

\* C33: when ctxWriter.Write returns a nil error, n is len(p) and the
\* underlying writer has accepted the bytes of p in order, each once, however
\* the partial writes fell; while Write runs the writer holds the first n
\* bytes of p and the rest is still to be written; and Write returns, given
\* that every underlying write accepts at least one byte or fails.
C33_WriteCompleteAndTerminates ==
    /\ []((wf.pc = "written" /\ wf.cw.err = NoError) =>
            /\ wf.cw.n = Len(WriteData)
            /\ file.bytes = WriteData)
    /\ [](InWrite =>
            /\ wf.n = Len(file.bytes)
            /\ file.bytes \o wf.p = WriteData)
    /\ (InWrite ~> wf.pc = "written")

\* Write has returned nil for the separator and a document, after a state
\* in which only a part of them had been accepted
C33_Witness ==
    /\ wf.pc = "written"
    /\ wf.cw.err = NoError
    /\ wf.cw.n = Len(Separator) + DocParts
    /\ file.bytes = Separator \o wf.doc

(***************************************************************************)
(* App.Run, runDocker and the listener of getDockerMeta.                   *)
(***************************************************************************)
\* the listener goroutine has been started
ListenerRuns == listener.pc # "none"

\* C31: once runDocker's context is cancelled or runDocker has returned, the
\* listener goroutine of getDockerMeta eventually exits: it neither loops on
\* the cancelled context nor stays blocked in a send on errCh.
C31_ListenerExits ==
    (ListenerRuns /\ (ChildDone \/ mainF.pc = "returned"))
        ~> (listener.pc = "exited")

\* Run has returned
RunReturned == mainF.pc = "returned"

\* the application has exited on its own
ExitedOnItsOwn == proc \in {"exited0", "exited1"}

\* C32: Run returns ErrCtxCanceled only when the caller's context was
\* cancelled; when the application has exited on its own and the caller's
\* context is live, Run returns ErrAppStopped or a result that carries an
\* error, in native and in docker mode.
C32_CtxCanceledOnlyOnCancel ==
    RunReturned =>
        /\ mainF.ret.AppErrorType = ErrCtxCanceled => ctxs.caller
        /\ (ExitedOnItsOwn /\ ~ctxs.caller) =>
              \/ mainF.ret.AppErrorType = ErrAppStopped
              \/ mainF.ret.Err # "nil"

====
